---- MODULE Spec2Model ----
(***************************************************************************)
(* A model of the GlobalState container (key/value table, version,         *)
(* event bus, middleware chain, undo/redo stacks, hydration and            *)
(* localStorage persistence).  Every public method is one action; the      *)
(* methods themselves are operators from an instance record to an          *)
(* instance record, written statement by statement after the source.       *)
(***************************************************************************)
EXTENDS Integers, Sequences, FiniteSets, TLC

VARIABLES
    state,          \* this.state: the key -> value table
    version,        \* this.version
    history,        \* this.history: stack of table snapshots (top = last)
    future,         \* this.future: stack of table snapshots (top = last)
    persist,        \* this.persist
    storageKey,     \* this.storageKey
    middlewares,    \* this.middlewares: [before, after] lists of functions
    listeners,      \* listeners on this.eventTarget, in registration order
    nextId,         \* identity of the next handler closure to be created
    hasStorage,     \* whether globalThis.localStorage exists
    localStorage,   \* the external store: slot key -> item
    cap,            \* the bounds of this run
    call,           \* the public call made last
    prior,          \* the public call made before that one
    outcome,        \* how that call ended
    delivered,      \* callbacks invoked during that call, in order
    calls,          \* middleware invocations during that call, in order
    writes,         \* localStorage.setItem calls during that call, in order
    rt,             \* observer of set^n undo^n redo^n sequences
    mem,            \* the table objects and what refers to them
    registry        \* _globalStateInstance and the last call of the registry

vars == <<state, version, history, future, persist, storageKey, middlewares,
          listeners, nextId, hasStorage, localStorage, cap, call, prior,
          outcome, delivered, calls, writes, rt, mem, registry>>

(***************************************************************************)
(* Bounds of the model.                                                    *)
(***************************************************************************)
MaxVersion == 3      \* Spec: highest version a run reaches
MaxRegs == 1         \* Spec: middleware and subscriptions registered at a time
SetMaxVersion == 1   \* SpecSet: highest version a run reaches
MaxBefore == 2       \* SpecSet: before-middleware registered
MaxAfter == 1        \* SpecSet: after-middleware registered
MaxSubs == 1         \* SpecSet, SpecHydrate: subscribe / subscribeAll calls
HistMaxVersion == 8  \* SpecHistory: highest version a run reaches
HistMaxBefore == 1   \* SpecHistory: before-middleware registered
MaxStack == 3        \* SpecHistory: snapshots on the two stacks together
MaxSeq == 2          \* SpecHistory: longest observed set^n undo^n redo^n
HydMaxVersion == 2   \* SpecHydrate: highest version a run reaches
RegMaxVersion == 1   \* SpecRegistry: highest version an instance reaches
MaxInstances == 2    \* SpecRegistry: instances constructed in a run
MwMaxVersion == 1    \* SpecMiddleware: highest version a run reaches
MaxChain == 3        \* SpecMiddleware: middleware registered at a time
EvMaxVersion == 2    \* SpecEvents: highest version a run reaches
EvMaxSubs == 2       \* SpecEvents: subscribe / subscribeAll calls per run
ManyMaxVersion == 3  \* SpecMany: highest version a run reaches
ManyMaxBefore == 1   \* SpecMany: before-middleware registered
OrdMaxVersion == 2   \* SpecOrder: highest version a run reaches
OrdMaxBefore == 1    \* SpecOrder: before-middleware registered
OrdMaxAfter == 2     \* SpecOrder: after-middleware registered
OrdMaxSubs == 2      \* SpecOrder: subscribe / subscribeAll calls
FutMaxVersion == 5   \* SpecFuture: highest version a run reaches
FutMaxStack == 3     \* SpecFuture: snapshots on the two stacks together
PerMaxVersion == 2   \* SpecPersist: highest version a run reaches
PerMaxSubs == 2      \* SpecPersist: subscribe / subscribeAll calls per run
MergeMaxVersion == 1 \* SpecMerge: highest version a run reaches
MergeMaxSubs == 2    \* SpecMerge: subscribe / subscribeAll calls
MergeMaxMw == 1      \* SpecMerge: middleware registered per phase
StaleMaxVersion == 3 \* SpecStale: highest version a run reaches
StaleMaxSubs == 2    \* SpecStale: subscribe / subscribeAll calls
LeaveMaxVersion == 2 \* SpecLeave: highest version a run reaches
LeaveMaxBefore == 3  \* SpecLeave: before-middleware registered
LeaveMaxAfter == 2   \* SpecLeave: after-middleware registered
MaxNesting == 3      \* nested calls of set the call stack has room for
NestMaxVersion == 3  \* SpecNested: highest version a run reaches
NestMaxSubs == 3     \* SpecNested: subscribe / subscribeAll calls

(***************************************************************************)
(* Values.  Keys are strings; values are numbers, and `undefined` is a     *)
(* value of its own that a key may hold.                                   *)
(***************************************************************************)
Keys == {"a", "b"}
Undefined == 0
Vals == {1, 2}
AnyVals == Vals \cup {Undefined}
StorageKeys == {"global-state", "app"}
NoKey == ""
Wildcard == "*"

EmptyTable == [k \in {} |-> Undefined]
Tables == UNION {[D -> AnyVals] : D \in SUBSET Keys}

Get(t, k) == IF k \in DOMAIN t THEN t[k] ELSE Undefined
Put(t, k, v) == [x \in (DOMAIN t) \cup {k} |-> IF x = k THEN v ELSE t[x]]
Delete(t, k) == [x \in (DOMAIN t) \ {k} |-> t[x]]
Single(k, v) == [x \in {k} |-> v]
Pop(s) == SubSeq(s, 1, Len(s) - 1)
Top(s) == s[Len(s)]

(***************************************************************************)
(* JSON.stringify drops the keys whose value is undefined; JSON.parse      *)
(* yields the table that was written.  An item is either null or a text.   *)
(***************************************************************************)
Stringify(t) == [k \in {x \in DOMAIN t : t[x] # Undefined} |-> t[k]]
Parse(raw) == raw
NoItem == [has |-> FALSE, text |-> EmptyTable]
Item(text) == [has |-> TRUE, text |-> text]

(***************************************************************************)
(* The instance together with its environment and the observations of      *)
(* the running call.                                                       *)
(***************************************************************************)
Self ==
    [state |-> state, version |-> version, history |-> history,
     future |-> future, persist |-> persist, storageKey |-> storageKey,
     middlewares |-> middlewares, listeners |-> listeners,
     hasStorage |-> hasStorage, localStorage |-> localStorage,
     outcome |-> "returned", delivered |-> <<>>, calls |-> <<>>,
     writes |-> <<>>, level |-> 0]

Becomes(w) ==
    /\ state' = w.state
    /\ version' = w.version
    /\ history' = w.history
    /\ future' = w.future
    /\ persist' = w.persist
    /\ storageKey' = w.storageKey
    /\ middlewares' = w.middlewares
    /\ listeners' = w.listeners
    /\ localStorage' = w.localStorage
    /\ outcome' = w.outcome
    /\ delivered' = w.delivered
    /\ calls' = w.calls
    /\ writes' = w.writes
    /\ UNCHANGED hasStorage

(***************************************************************************)
(* Event bus.  A listener is a handler closure registered under an event   *)
(* name; the name is built from the slot key current at that moment.       *)
(* A notification carries a value (per-key topic) or a delta (wildcard).   *)
(***************************************************************************)
EventName(prefix, topic) == <<prefix, topic>>

\* What a callback or a middleware function can observe of the instance
\* and of the store while it runs.
Seen(w) ==
    [state |-> w.state, version |-> w.version, depth |-> Len(w.history),
     stored |-> w.localStorage[w.storageKey]]

\* The number of callbacks and middleware functions invoked and of writes
\* made so far in the running call.
Events(w) == Len(w.delivered) + Len(w.calls) + Len(w.writes)

Notification(w, l, i, topic, value, delta) ==
    [id |-> l.id, topic |-> topic, value |-> value, delta |-> delta,
     at |-> Events(w) + i, seen |-> Seen(w)]

\* A callback: the identity of its handler closure, and whether it calls
\* its own disposer when it is notified.
Callback(id, once) == [id |-> id, once |-> once, resets |-> FALSE]

\* A callback that calls set(key, 2) when it is notified of the value 1.
Resetting(id) == [id |-> id, once |-> FALSE, resets |-> TRUE]

\* dispatchEvent invokes, in registration order, the listeners registered
\* under the name; a callback that disposes of itself is gone afterwards.
\* A dispatch that goes by the topic alone.
DispatchAnyPrefix(w, topic, value, delta) ==
    LET hit == SelectSeq(w.listeners, LAMBDA l : l.event[2] = topic)
    IN  [w EXCEPT !.delivered =
            @ \o [i \in 1..Len(hit) |->
                    Notification(w, hit[i], i, topic, value, delta)],
                  !.listeners =
            SelectSeq(@, LAMBDA l : ~(l.event[2] = topic /\ l.once))]

\* this.set(key, value) called from a callback or a middleware function
\* while a call of set is running.  The call stack has room for MaxNesting
\* such calls, one inside the other; the one after that ends at once with
\* the runtime's RangeError (outcome "overflow").
RECURSIVE set(_, _, _)
Nested(w, key, value) ==
    IF w.level >= MaxNesting THEN [w EXCEPT !.outcome = "overflow"]
    ELSE LET r == set([w EXCEPT !.level = @ + 1, !.outcome = "returned"],
                      key, value)
         IN  [r EXCEPT !.level = w.level]

\* What the callback of listener l does when it is notified.  An exception
\* it throws is reported by dispatchEvent and goes no further.
Notified(w, l, topic, value) ==
    IF l.resets /\ topic # Wildcard /\ value = 1
    THEN [Nested(w, topic, 2) EXCEPT !.outcome = w.outcome]
    ELSE w

\* The listeners found under the name when the dispatch began are invoked
\* in order, one after the other returns, unless removed in the meantime.
RECURSIVE DispatchFrom(_, _, _, _, _, _)
DispatchFrom(w, hit, i, topic, value, delta) ==
    IF i > Len(hit) THEN w
    ELSE LET l == hit[i]
         IN  IF \A x \in DOMAIN w.listeners : w.listeners[x].id # l.id
             THEN DispatchFrom(w, hit, i + 1, topic, value, delta)
             ELSE LET w1 == [w EXCEPT !.delivered =
                               Append(@, Notification(w, l, 1, topic, value,
                                                      delta)),
                                      !.listeners =
                               IF l.once
                               THEN SelectSeq(@, LAMBDA x : x.id # l.id)
                               ELSE @]
                  IN  DispatchFrom(Notified(w1, l, topic, value), hit, i + 1,
                                   topic, value, delta)

\* The variant of Dispatch during which no callback calls back into the
\* instance.
DispatchInert(w, topic, value, delta) ==
    LET name == EventName(w.storageKey, topic)
        hit == SelectSeq(w.listeners, LAMBDA l : l.event = name)
        plain == [i \in 1..Len(hit) |-> [hit[i] EXCEPT !.resets = FALSE]]
    IN  DispatchFrom(w, plain, 1, topic, value, delta)

Dispatch(w, topic, value, delta) ==
    LET name == EventName(w.storageKey, topic)
        hit == SelectSeq(w.listeners, LAMBDA l : l.event = name)
    IN  DispatchFrom(w, hit, 1, topic, value, delta)

emit(w, key, value) == Dispatch(w, key, value, EmptyTable)
emitAll(w, delta) == Dispatch(w, Wildcard, Undefined, delta)

subscribe(w, key, callback) ==
    [w EXCEPT !.listeners =
        Append(@, [id |-> callback.id, once |-> callback.once,
                   resets |-> callback.resets,
                   event |-> EventName(w.storageKey, key)])]

subscribeAll(w, callback) ==
    [w EXCEPT !.listeners =
        Append(@, [id |-> callback.id, once |-> callback.once,
                   resets |-> callback.resets,
                   event |-> EventName(w.storageKey, Wildcard)])]

\* A disposer that leaves the listener registered.
unsubscribeKeeping(w, id) == w

unsubscribe(w, id) ==
    [w EXCEPT !.listeners = SelectSeq(@, LAMBDA l : l.id # id)]

(***************************************************************************)
(* Middleware.  The functions a caller registers, and what each returns    *)
(* for a context: nothing, false, an override {value}, or an exception.    *)
(***************************************************************************)
Fns == {"guard", "flip", "bump", "check"}

\* Functions that call removeMiddleware while they run: "leave" removes
\* itself, "evict" removes "flip", each from the phase it is running in.
Leavers == {"leave", "evict"}

\* "again" calls set(ctx.key, ctx.value) on the instance, whatever the
\* context.
Callers == {"again"}

\* The RangeError of an exhausted call stack.
Overflow == [kind |-> "overflow", value |-> Undefined]

Void == [kind |-> "void", value |-> Undefined]
False == [kind |-> "false", value |-> Undefined]
Override(v) == [kind |-> "value", value |-> v]
Throw == [kind |-> "throw", value |-> Undefined]

MwReturn(fn, ctx) ==
    CASE fn = "guard" -> IF ctx.key = "a" /\ ctx.value = 2 THEN False ELSE Void
      [] fn = "flip" -> IF ctx.value = 2 THEN Override(1) ELSE Void
      [] fn = "bump" -> IF ctx.value = 1 THEN Override(2) ELSE Void
      [] fn = "check" -> IF ctx.key = "a" /\ ctx.value = 1 THEN Throw ELSE Void
      [] fn \in Leavers \cup Callers -> Void

useBefore(w, fn) == [w EXCEPT !.middlewares.before = Append(@, fn)]
useAfter(w, fn) == [w EXCEPT !.middlewares.after = Append(@, fn)]

\* list.indexOf(fn) taken from the end of the list.
IndexOfLast(list, fn) ==
    IF \E i \in 1..Len(list) : list[i] = fn
    THEN CHOOSE i \in 1..Len(list) :
            list[i] = fn /\ \A j \in (i + 1)..Len(list) : list[j] # fn
    ELSE 0

IndexOf(list, fn) ==
    IF \E i \in 1..Len(list) : list[i] = fn
    THEN CHOOSE i \in 1..Len(list) :
            list[i] = fn /\ \A j \in 1..(i - 1) : list[j] # fn
    ELSE 0

Splice(list, idx) == SubSeq(list, 1, idx - 1) \o SubSeq(list, idx + 1, Len(list))

removeMiddleware(w, type, fn) ==
    LET list == w.middlewares[type]
        idx == IndexOf(list, fn)
    IN  IF idx >= 1 THEN [w EXCEPT !.middlewares[type] = Splice(list, idx)]
        ELSE w

\* res === false
IsAbortNever(res) == FALSE
IsAbort(res) == res.kind = "false"

\* res && typeof res === 'object' && 'value' in res
IsOverride(res) == res.kind = "value"

\* ctx.value = res.value
WithValueStale(ctx, res) == ctx
WithValue(ctx, res) == [ctx EXCEPT !.value = res.value]

\* The invocation of fn, as the log of the call records it.
Invoked(w, type, fn, ctx, res) ==
    [w EXCEPT !.calls =
        Append(@, [type |-> type, fn |-> fn, key |-> ctx.key,
                   value |-> ctx.value, res |-> res,
                   at |-> Events(w) + 1, seen |-> Seen(w)])]

\* What the body of fn does to the instance before it returns.
MwEffect(w, type, fn, ctx) ==
    CASE fn = "leave" -> removeMiddleware(w, type, "leave")
      [] fn = "evict" -> removeMiddleware(w, type, "flip")
      [] fn = "again" -> Nested(w, ctx.key, ctx.value)
      [] OTHER -> w

\* How fn ends: with what it returns, or with the exception of the call
\* it made.
MwResult(w, fn, ctx) ==
    IF fn \in Callers /\ w.outcome = "overflow" THEN Overflow
    ELSE IF fn \in Callers /\ w.outcome \in {"threw:before", "threw:after"}
    THEN Throw
    ELSE MwReturn(fn, ctx)

Thrown(res) == res.kind \in {"throw", "overflow"}

\* fn(ctx, this.state): the invocation is logged when it begins, its
\* result when it ends.
\* The return of fn: the n-th entry of the log gets its result, and an
\* exception of the call fn made is now fn's own (was: how the caller of fn
\* stood).
Ended(w, n, was, fn, ctx) ==
    IF fn \in Callers
    THEN [w |-> [w EXCEPT !.calls[n].res = MwResult(w, fn, ctx),
                          !.outcome = was],
          res |-> MwResult(w, fn, ctx)]
    ELSE [w |-> w, res |-> MwReturn(fn, ctx)]

Run(w, type, fn, ctx) ==
    Ended(MwEffect(Invoked(w, type, fn, ctx, MwReturn(fn, ctx)), type, fn, ctx),
          Len(w.calls) + 1, w.outcome, fn, ctx)

\* The variant of RunFrom that goes on with the element after the one that
\* ran, wherever a removal has moved it.
RECURSIVE RunFromByElement(_, _, _, _)
RunFromByElement(w, type, ctx, i) ==
    IF i > Len(w.middlewares[type])
    THEN [w |-> w, ctx |-> ctx, ok |-> TRUE, threw |-> FALSE]
    ELSE LET fn == w.middlewares[type][i]
             ran == Run(w, type, fn, ctx)
             res == ran.res
             w1 == ran.w
             next == i + 1 - (Len(w.middlewares[type]) - Len(w1.middlewares[type]))
         IN  IF Thrown(res)
             THEN [w |-> w1, ctx |-> ctx, ok |-> FALSE, threw |-> TRUE]
             ELSE IF IsAbort(res)
             THEN [w |-> w1, ctx |-> ctx, ok |-> FALSE, threw |-> FALSE]
             ELSE IF IsOverride(res)
             THEN RunFromByElement(w1, type, WithValue(ctx, res), next)
             ELSE RunFromByElement(w1, type, ctx, next)

\* The result of a chain: the instance, the context as the chain left it,
\* whether the chain ran through (ok) and whether a function threw.  The
\* loop reads this.middlewares[type] by position each time round.
RECURSIVE RunFrom(_, _, _, _)

\* After the function at position i ran: the chain ends on an exception or
\* on false, and goes on with position i + 1 otherwise.
RunNext(ran, type, ctx, i) ==
    IF Thrown(ran.res)
    THEN [w |-> ran.w, ctx |-> ctx, ok |-> FALSE, threw |-> TRUE]
    ELSE IF IsAbort(ran.res)
    THEN [w |-> ran.w, ctx |-> ctx, ok |-> FALSE, threw |-> FALSE]
    ELSE IF IsOverride(ran.res)
    THEN RunFrom(ran.w, type, WithValue(ctx, ran.res), i + 1)
    ELSE RunFrom(ran.w, type, ctx, i + 1)

RunFrom(w, type, ctx, i) ==
    IF i > Len(w.middlewares[type])
    THEN [w |-> w, ctx |-> ctx, ok |-> TRUE, threw |-> FALSE]
    ELSE RunNext(Run(w, type, w.middlewares[type][i], ctx), type, ctx, i)

runMiddlewares(w, type, ctx) == RunFrom(w, type, ctx, 1)

(***************************************************************************)
(* Persistence.                                                            *)
(***************************************************************************)
\* saveToStorage without the availability check.
saveToStorageUnguarded(w) ==
    LET text == Stringify(w.state)
    IN  [w EXCEPT !.localStorage[w.storageKey] = Item(text),
                  !.writes = Append(@, [key |-> w.storageKey, text |-> text])]

\* saveToStorage writing the table without its key "b".
saveToStoragePartial(w) ==
    IF ~w.hasStorage THEN w
    ELSE LET text == Stringify(Delete(w.state, "b"))
         IN  [w EXCEPT !.localStorage[w.storageKey] = Item(text),
                       !.writes = Append(@, [key |-> w.storageKey, text |-> text])]

saveToStorage(w) ==
    IF ~w.hasStorage THEN w
    ELSE LET text == Stringify(w.state)
         IN  [w EXCEPT !.localStorage[w.storageKey] = Item(text),
                       !.writes = Append(@, [key |-> w.storageKey, text |-> text])]

\* A load that keeps the in-memory keys the stored table lacks.
loadFromStorageMerging(w) ==
    IF ~w.hasStorage THEN w
    ELSE LET raw == w.localStorage[w.storageKey]
         IN  IF raw.has THEN [w EXCEPT !.state = Parse(raw.text) @@ @] ELSE w

loadFromStorage(w) ==
    IF ~w.hasStorage THEN w
    ELSE LET raw == w.localStorage[w.storageKey]
         IN  IF raw.has THEN [w EXCEPT !.state = Parse(raw.text)] ELSE w

Saved(w) == IF w.persist THEN saveToStorage(w) ELSE w

isPersistent(w) == w.persist

\* enablePersistence without the closing save.
enablePersistenceNoSave(w, key) ==
    IF w.persist THEN w
    ELSE LET w1 == IF key # NoKey /\ key # w.storageKey
                   THEN [w EXCEPT !.storageKey = key] ELSE w
             w2 == [w1 EXCEPT !.persist = TRUE]
         IN  loadFromStorage(w2)

\* enablePersistence adopting the key on an already persistent instance.
enablePersistenceRekeying(w, key) ==
    LET w1 == IF key # NoKey /\ key # w.storageKey
              THEN [w EXCEPT !.storageKey = key] ELSE w
        w2 == [w1 EXCEPT !.persist = TRUE]
    IN  IF w.persist THEN w1 ELSE saveToStorage(loadFromStorage(w2))

enablePersistence(w, key) ==
    IF w.persist THEN w
    ELSE LET w1 == IF key # NoKey /\ key # w.storageKey
                   THEN [w EXCEPT !.storageKey = key] ELSE w
             w2 == [w1 EXCEPT !.persist = TRUE]
         IN  saveToStorage(loadFromStorage(w2))

(***************************************************************************)
(* Core mutations.                                                         *)
(***************************************************************************)
Bump(w) == [w EXCEPT !.version = @ + 1]

get(w, key) == Get(w.state, key)
getAll(w) == w.state

\* history.push({...state}); state[key] = value; version++
setCommitNoVersion(w, key, v) ==
    LET w1 == [w EXCEPT !.history = Append(@, w.state)]
    IN  [w1 EXCEPT !.state = Put(@, key, v)]

\* A set that drops the redo stack.
setCommitFresh(w, key, v) ==
    LET w1 == [w EXCEPT !.history = Append(@, w.state), !.future = <<>>]
        w2 == [w1 EXCEPT !.state = Put(@, key, v)]
    IN  Bump(w2)

setCommit(w, key, v) ==
    LET w1 == [w EXCEPT !.history = Append(@, w.state)]
        w2 == [w1 EXCEPT !.state = Put(@, key, v)]
    IN  Bump(w2)

setEmitAllFirst(w, key, v) == emit(emitAll(w, Single(key, v)), key, v)

\* emit(String(key), value); emit('*', {[key]: value})
setEmit(w, key, v) == emitAll(emit(w, key, v), Single(key, v))

\* A set that saves before it passes on what an after-middleware threw.
setSavingOnThrow(w, key, value) ==
    LET b == runMiddlewares(w, "before", [key |-> key, value |-> value])
    IN  IF b.threw THEN [b.w EXCEPT !.outcome = "threw:before"]
        ELSE IF ~b.ok THEN [b.w EXCEPT !.outcome = "aborted"]
        ELSE LET v == b.ctx.value
                 w5 == setEmit(setCommit(b.w, key, v), key, v)
                 a == runMiddlewares(w5, "after", [key |-> key, value |-> v])
             IN  IF a.threw THEN [Saved(a.w) EXCEPT !.outcome = "threw:after"]
                 ELSE Saved(a.w)

setDespiteThrow(w, key, value) ==
    LET b == runMiddlewares(w, "before", [key |-> key, value |-> value])
    IN  IF b.threw
        THEN [Saved(setEmit(setCommit(b.w, key, b.ctx.value), key, b.ctx.value))
                EXCEPT !.outcome = "threw:before"]
        ELSE IF ~b.ok THEN [b.w EXCEPT !.outcome = "aborted"]
        ELSE LET v == b.ctx.value
                 w5 == setEmit(setCommit(b.w, key, v), key, v)
                 a == runMiddlewares(w5, "after", [key |-> key, value |-> v])
             IN  IF a.threw THEN [a.w EXCEPT !.outcome = "threw:after"]
                 ELSE Saved(a.w)

setAfterGated(w, key, value) ==
    LET b == runMiddlewares(w, "before", [key |-> key, value |-> value])
    IN  IF b.threw THEN [b.w EXCEPT !.outcome = "threw:before"]
        ELSE IF ~b.ok THEN [b.w EXCEPT !.outcome = "aborted"]
        ELSE LET v == b.ctx.value
                 w5 == setEmit(setCommit(b.w, key, v), key, v)
                 a == runMiddlewares(w5, "after", [key |-> key, value |-> v])
             IN  IF a.threw THEN [a.w EXCEPT !.outcome = "threw:after"]
                 ELSE IF ~a.ok THEN a.w
                 ELSE Saved(a.w)

\* The end of set, a being the outcome of the after-chain.
setEnd(a) ==
    IF a.threw THEN [a.w EXCEPT !.outcome = "threw:after"]
    ELSE Saved(a.w)

\* set from `value = ctx.value` on, b being the outcome of the before-chain.
setGo(b, key) ==
    IF b.threw THEN [b.w EXCEPT !.outcome = "threw:before"]
    ELSE IF ~b.ok THEN [b.w EXCEPT !.outcome = "aborted"]
    ELSE setEnd(runMiddlewares(
                    setEmit(setCommit(b.w, key, b.ctx.value), key, b.ctx.value),
                    "after", [key |-> key, value |-> b.ctx.value]))

set(w, key, value) ==
    setGo(runMiddlewares(w, "before", [key |-> key, value |-> value]), key)

\* setMany(updates): Object.entries(updates).forEach(([k, v]) => { if (v !==
\* undefined) this.set(k, v); }).  The mapping is the sequence of its
\* entries in iteration order; an exception thrown by one set ends the loop.
RECURSIVE SetManyFrom(_, _, _)
SetManyFrom(w, updates, i) ==
    IF i > Len(updates) THEN w
    ELSE LET e == updates[i]
             w1 == IF e.value # Undefined THEN set(w, e.key, e.value) ELSE w
         IN  IF w1.outcome \in {"threw:before", "threw:after"} THEN w1
             ELSE SetManyFrom([w1 EXCEPT !.outcome = "returned"], updates, i + 1)

setManyReversed(w, updates) ==
    SetManyFrom(w, [i \in 1..Len(updates) |-> updates[Len(updates) + 1 - i]], 1)

setMany(w, updates) == SetManyFrom(w, updates, 1)

removePushing(w, key) ==
    IF key \in DOMAIN w.state
    THEN LET w0 == [w EXCEPT !.history = Append(@, w.state)]
             w1 == [w0 EXCEPT !.state = Delete(@, key)]
             w2 == Bump(w1)
         IN  Saved(emit(w2, key, Undefined))
    ELSE w

remove(w, key) ==
    IF key \in DOMAIN w.state
    THEN LET w1 == [w EXCEPT !.state = Delete(@, key)]
             w2 == Bump(w1)
         IN  Saved(emit(w2, key, Undefined))
    ELSE w

clearNoVersion(w) ==
    LET w1 == [w EXCEPT !.state = EmptyTable]
    IN  Saved(emitAll(w1, EmptyTable))

clearIfAny(w) ==
    IF w.state = EmptyTable THEN w
    ELSE LET w1 == [w EXCEPT !.state = EmptyTable]
             w2 == Bump(w1)
         IN  Saved(emitAll(w2, EmptyTable))

clear(w) ==
    LET w1 == [w EXCEPT !.state = EmptyTable]
        w2 == Bump(w1)
    IN  Saved(emitAll(w2, EmptyTable))

(***************************************************************************)
(* Undo / redo.                                                            *)
(***************************************************************************)
\* future.push after the pop: the restored table is pushed, not the current.
undoStale(w) ==
    IF Len(w.history) = 0 THEN w
    ELSE LET w1 == [w EXCEPT !.state = Top(w.history), !.history = Pop(@)]
             w2 == [w1 EXCEPT !.future = Append(@, w1.state)]
             w3 == Bump(w2)
         IN  Saved(emitAll(w3, w3.state))

\* undo without the check for an empty history: version, notification and
\* save happen all the same.
undoEager(w) ==
    IF Len(w.history) = 0
    THEN LET w3 == Bump(w)
         IN  Saved(emitAll(w3, w3.state))
    ELSE LET w1 == [w EXCEPT !.future = Append(@, w.state)]
             w2 == [w1 EXCEPT !.state = Top(w1.history), !.history = Pop(@)]
             w3 == Bump(w2)
         IN  Saved(emitAll(w3, w3.state))

\* An undo that also emits the per-key event of every key.
undoPerKey(w) ==
    IF Len(w.history) = 0 THEN w
    ELSE LET w1 == [w EXCEPT !.future = Append(@, w.state)]
             w2 == [w1 EXCEPT !.state = Top(w1.history), !.history = Pop(@)]
             w3 == Bump(w2)
             w4 == emit(emit(w3, "a", Get(w3.state, "a")), "b", Get(w3.state, "b"))
         IN  Saved(emitAll(w4, w4.state))

undo(w) ==
    IF Len(w.history) = 0 THEN w
    ELSE LET w1 == [w EXCEPT !.future = Append(@, w.state)]
             w2 == [w1 EXCEPT !.state = Top(w1.history), !.history = Pop(@)]
             w3 == Bump(w2)
         IN  Saved(emitAll(w3, w3.state))

\* A redo that does not keep the table it replaces.
redoDropping(w) ==
    IF Len(w.future) = 0 THEN w
    ELSE LET w2 == [w EXCEPT !.state = Top(w.future), !.future = Pop(@)]
             w3 == Bump(w2)
         IN  Saved(emitAll(w3, w3.state))

redo(w) ==
    IF Len(w.future) = 0 THEN w
    ELSE LET w1 == [w EXCEPT !.history = Append(@, w.state)]
             w2 == [w1 EXCEPT !.state = Top(w1.future), !.future = Pop(@)]
             w3 == Bump(w2)
         IN  Saved(emitAll(w3, w3.state))

(***************************************************************************)
(* Hydration.                                                              *)
(***************************************************************************)
DefaultOpts ==
    [mode |-> "merge", emit |-> TRUE, recordHistory |-> FALSE, onlyNew |-> FALSE]

\* The keys the merge loop assigns.
MergeSetAlways(t, snapshot, onlyNew) ==
    {k \in DOMAIN snapshot :
        /\ ~(onlyNew /\ Get(t, k) # Undefined)
        /\ snapshot[k] # Undefined}

\* The keys the merge loop assigns when it does not look at onlyNew.
MergeSetClobbering(t, snapshot, onlyNew) ==
    {k \in DOMAIN snapshot :
        /\ snapshot[k] # Undefined
        /\ Get(t, k) # snapshot[k]}

MergeSet(t, snapshot, onlyNew) ==
    {k \in DOMAIN snapshot :
        /\ ~(onlyNew /\ Get(t, k) # Undefined)
        /\ snapshot[k] # Undefined
        /\ Get(t, k) # snapshot[k]}

Merge(t, snapshot, onlyNew) ==
    LET ks == MergeSet(t, snapshot, onlyNew)
    IN  [k \in (DOMAIN t) \cup ks |-> IF k \in ks THEN snapshot[k] ELSE t[k]]

ReplaceChangedAlways(t, snapshot) == TRUE

ReplaceChanged(t, snapshot) ==
    Cardinality(DOMAIN t) > 0 \/ Cardinality(DOMAIN snapshot) > 0

\* A hydrate that takes its history snapshot after applying.
hydrateRecordingLate(w, snapshot, opts) ==
    LET changed == IF opts.mode = "replace"
                   THEN ReplaceChanged(w.state, snapshot)
                   ELSE MergeSet(w.state, snapshot, opts.onlyNew) # {}
        w1 == IF opts.mode = "replace"
              THEN [w EXCEPT !.state = snapshot]
              ELSE [w EXCEPT !.state = Merge(@, snapshot, opts.onlyNew)]
        w2 == IF opts.recordHistory
              THEN [w1 EXCEPT !.history = Append(@, w1.state)] ELSE w1
    IN  IF changed
        THEN LET w3 == Bump(w2)
                 w4 == IF opts.emit THEN emitAll(w3, w3.state) ELSE w3
             IN  Saved(w4)
        ELSE w2

\* A hydrate that emits whatever opts.emit says.
hydrateLoud(w, snapshot, opts) ==
    LET w1 == IF opts.recordHistory
              THEN [w EXCEPT !.history = Append(@, w.state)] ELSE w
        changed == IF opts.mode = "replace"
                   THEN ReplaceChanged(w1.state, snapshot)
                   ELSE MergeSet(w1.state, snapshot, opts.onlyNew) # {}
        w2 == IF opts.mode = "replace"
              THEN [w1 EXCEPT !.state = snapshot]
              ELSE [w1 EXCEPT !.state = Merge(@, snapshot, opts.onlyNew)]
    IN  IF changed
        THEN LET w3 == Bump(w2)
             IN  Saved(emitAll(w3, w3.state))
        ELSE w2

hydrate(w, snapshot, opts) ==
    LET w1 == IF opts.recordHistory
              THEN [w EXCEPT !.history = Append(@, w.state)] ELSE w
        changed == IF opts.mode = "replace"
                   THEN ReplaceChanged(w1.state, snapshot)
                   ELSE MergeSet(w1.state, snapshot, opts.onlyNew) # {}
        w2 == IF opts.mode = "replace"
              THEN [w1 EXCEPT !.state = snapshot]
              ELSE [w1 EXCEPT !.state = Merge(@, snapshot, opts.onlyNew)]
    IN  IF changed
        THEN LET w3 == Bump(w2)
                 w4 == IF opts.emit THEN emitAll(w3, w3.state) ELSE w3
             IN  Saved(w4)
        ELSE w2

(***************************************************************************)
(* Construction: new GlobalState({persist, storageKey}).                   *)
(***************************************************************************)
\* new GlobalState(options) without the load from the store.
constructNoLoad(p, key, avail, store) ==
    [state |-> EmptyTable, version |-> 0, history |-> <<>>,
     future |-> <<>>, persist |-> p, storageKey |-> key,
     middlewares |-> [before |-> <<>>, after |-> <<>>],
     listeners |-> <<>>, hasStorage |-> avail,
     localStorage |-> store, outcome |-> "returned",
     delivered |-> <<>>, calls |-> <<>>, writes |-> <<>>,
              level |-> 0]

construct(p, key, avail, store) ==
    LET w == [state |-> EmptyTable, version |-> 0, history |-> <<>>,
              future |-> <<>>, persist |-> p, storageKey |-> key,
              middlewares |-> [before |-> <<>>, after |-> <<>>],
              listeners |-> <<>>, hasStorage |-> avail,
              localStorage |-> store, outcome |-> "returned",
              delivered |-> <<>>, calls |-> <<>>, writes |-> <<>>,
              level |-> 0]
    IN  IF w.persist THEN loadFromStorage(w) ELSE w

(***************************************************************************)
(* Inputs of the calls.                                                    *)
(***************************************************************************)
Snapshots ==
    {EmptyTable, "a" :> 1, "a" :> 2 @@ "b" :> 1, "a" :> Undefined @@ "b" :> 2}

Opts == [mode : {"merge", "replace"}, emit : BOOLEAN,
         recordHistory : BOOLEAN, onlyNew : BOOLEAN]

InitialItems == {NoItem, Item("a" :> 1 @@ "b" :> 2)}

\* A call: its name and arguments, whether it incremented version, and
\* whether it repeats the call before it (same method, same arguments).
\* The mappings passed to setMany: every sequence of entries with distinct
\* keys.
Entries == [key : Keys, value : AnyVals]
Updates ==
    {<<>>} \cup {<<e>> : e \in Entries}
           \cup {u \in Entries \X Entries : u[1].key # u[2].key}

Call(name, key, value, snapshot, opts) ==
    [name |-> name, key |-> key, value |-> value, snapshot |-> snapshot,
     opts |-> opts, phase |-> NoKey, updates |-> <<>>, bumped |-> FALSE,
     changed |-> FALSE, repeat |-> FALSE]

Same(c, d) ==
    /\ c.name = d.name
    /\ c.key = d.key
    /\ c.value = d.value
    /\ c.snapshot = d.snapshot
    /\ c.opts = d.opts
    /\ c.phase = d.phase
    /\ c.updates = d.updates

\* What is kept of the call before the last one.
Prior(c) == [name |-> c.name, key |-> c.key, bumped |-> c.bumped]
Unobserved == [name |-> "off", key |-> NoKey, bumped |-> FALSE]

(***************************************************************************)
(* Factory and singleton.  The registry is the identity of the instance    *)
(* that _globalStateInstance holds (0 for null; instances are numbered as  *)
(* they are constructed) and, if the last call was a call of the registry, *)
(* the instance it returned and its persist and force arguments.  The      *)
(* functions return the registry's new content and the instance it holds.  *)
(***************************************************************************)
Null == 0

Holding(inst) ==
    [inst |-> inst, ret |-> Null, persist |-> FALSE, force |-> FALSE]

DefaultKey == "global-state"

\* options: persist is false when absent, storageKey is NoKey when absent.
RegistryOptions == [persist : BOOLEAN, storageKey : {NoKey, "app"}]

\* new GlobalState(options), in the environment the instance w lives in.
createState(w, o) ==
    construct(o.persist,
              IF o.storageKey = NoKey THEN DefaultKey ELSE o.storageKey,
              w.hasStorage, w.localStorage)

initGlobalStateAlwaysNew(r, w, o, force) ==
    [inst |-> r.inst + 1, w |-> createState(w, o)]

initGlobalStateReplacing(r, w, o, force) ==
    IF r.inst = Null \/ force \/ (o.persist /\ ~isPersistent(w))
    THEN [inst |-> r.inst + 1, w |-> createState(w, o)]
    ELSE [inst |-> r.inst, w |-> w]

initGlobalState(r, w, o, force) ==
    IF r.inst = Null \/ force
    THEN [inst |-> r.inst + 1, w |-> createState(w, o)]
    ELSE IF o.persist
    THEN [inst |-> r.inst,
          w |-> IF ~isPersistent(w) THEN enablePersistence(w, o.storageKey)
                ELSE w]
    ELSE [inst |-> r.inst, w |-> w]

getGlobalState(r, w) ==
    IF r.inst = Null
    THEN [inst |-> r.inst + 1,
          w |-> createState(w, [persist |-> FALSE, storageKey |-> DefaultKey])]
    ELSE [inst |-> r.inst, w |-> w]

enableGlobalPersistence(r, w, key) ==
    LET gs == getGlobalState(r, w)
    IN  [inst |-> gs.inst, w |-> enablePersistence(gs.w, key)]

(***************************************************************************)
(* Observer of a sequence of n committed sets, n undos and n redos with    *)
(* nothing in between: pre and post are the tables before and after the    *)
(* sets, i counts the undos (phase "undos") or the redos (phase "redos"),  *)
(* fut0 tells whether the future stack was non-empty when it began.        *)
(***************************************************************************)
Off == [phase |-> "off", n |-> 0, i |-> 0, pre |-> EmptyTable,
        post |-> EmptyTable, fut0 |-> FALSE]
Idle == [Off EXCEPT !.phase = "idle"]

Committed(w) == w.outcome \in {"returned", "threw:after"}

ObserveSet(w) ==
    IF rt.phase = "off" THEN rt' = rt
    ELSE IF ~Committed(w) THEN rt' = Idle
    ELSE \/ rt' = [phase |-> "sets", n |-> 1, i |-> 0, pre |-> state,
                   post |-> w.state, fut0 |-> Len(future) > 0]
         \/ /\ rt.phase = "sets"
            /\ rt.n < cap.seq
            /\ rt' = [rt EXCEPT !.n = @ + 1, !.post = w.state]

ObserveUndo ==
    rt' = IF rt.phase = "off" THEN rt
          ELSE IF rt.phase = "sets" THEN [rt EXCEPT !.phase = "undos", !.i = 1]
          ELSE IF rt.phase = "undos" /\ rt.i < rt.n THEN [rt EXCEPT !.i = @ + 1]
          ELSE Idle

ObserveRedo ==
    rt' = IF rt.phase = "off" THEN rt
          ELSE IF rt.phase = "undos" /\ rt.i = rt.n
          THEN [rt EXCEPT !.phase = "redos", !.i = 1]
          ELSE IF rt.phase = "redos" /\ rt.i < rt.n THEN [rt EXCEPT !.i = @ + 1]
          ELSE Idle

ObserveOther == rt' = IF rt.phase = "off" THEN rt ELSE Idle

(***************************************************************************)
(* The objects behind the tables.  The operators above compute with table  *)
(* values; here each table is an object with an identity, so that sharing  *)
(* an object between this.state and a stack is something that can happen.  *)
(* heap maps the identities in use to their contents, live is this.state,  *)
(* hist and fut are this.history and this.future as lists of identities.   *)
(* `{...this.state}` and `{}` allocate; `this.state[key] = v` and          *)
(* `delete this.state[key]` write to the object this.state refers to.      *)
(***************************************************************************)
NoHeap == [on |-> FALSE, heap |-> <<>>, live |-> 0, hist |-> <<>>, fut |-> <<>>]

Stack(m) == {m.hist[i] : i \in DOMAIN m.hist} \cup {m.fut[i] : i \in DOMAIN m.fut}

Used(m) == {m.live} \cup Stack(m)

\* A new object: the least identity not in use.
Fresh(m) ==
    CHOOSE n \in 1..(Cardinality(Used(m)) + 1) :
        /\ n \notin Used(m)
        /\ \A x \in 1..(n - 1) : x \in Used(m)

\* Objects nothing refers to any more are collected.
Collect(m) == [m EXCEPT !.heap = [x \in Used(m) |-> m.heap[x]]]

\* this.history.push({ ...this.state })
PushCopy(m) ==
    LET n == Fresh(m)
    IN  [m EXCEPT !.heap = (n :> m.heap[m.live]) @@ m.heap,
                  !.hist = Append(m.hist, n)]

\* this.state = <a new object holding t>
Replace(m, t) ==
    LET n == Fresh(m)
    IN  [m EXCEPT !.heap = (n :> t) @@ m.heap, !.live = n]

\* The variant of RefSet that pushes this.state itself.
RefSetSharing(m, k, v) ==
    [m EXCEPT !.hist = Append(m.hist, m.live),
              !.heap = [m.heap EXCEPT ![m.live] = Put(@, k, v)]]

RefSet(m, k, v) ==
    LET p == PushCopy(m)
    IN  [p EXCEPT !.heap = [p.heap EXCEPT ![p.live] = Put(@, k, v)]]

RefRemove(m, k) ==
    IF k \notin DOMAIN m.heap[m.live] THEN m
    ELSE [m EXCEPT !.heap = [m.heap EXCEPT ![m.live] = Delete(@, k)]]

RefClear(m) == Replace(m, EmptyTable)

RefUndo(m) ==
    IF Len(m.hist) = 0 THEN m
    ELSE LET n == Fresh(m)
         IN  [m EXCEPT !.heap = (n :> m.heap[m.live]) @@ m.heap,
                       !.fut = Append(m.fut, n),
                       !.live = Top(m.hist),
                       !.hist = Pop(m.hist)]

RefRedo(m) ==
    IF Len(m.fut) = 0 THEN m
    ELSE LET n == Fresh(m)
         IN  [m EXCEPT !.heap = (n :> m.heap[m.live]) @@ m.heap,
                       !.hist = Append(m.hist, n),
                       !.live = Top(m.fut),
                       !.fut = Pop(m.fut)]

RefHydrate(m, snapshot, opts) ==
    LET p == IF opts.recordHistory THEN PushCopy(m) ELSE m
    IN  IF opts.mode = "replace" THEN Replace(p, snapshot)
        ELSE [p EXCEPT !.heap = [p.heap EXCEPT ![p.live] =
                                     Merge(@, snapshot, opts.onlyNew)]]

\* The objects after call c took the instance to w.  Calls whose object
\* steps are not followed here end the tracking.
Track(m, c, w) ==
    IF ~m.on THEN m
    ELSE IF c.name = "set"
         THEN IF Committed(w) THEN Collect(RefSet(m, c.key, w.state[c.key]))
              ELSE m
    ELSE IF c.name = "remove" THEN Collect(RefRemove(m, c.key))
    ELSE IF c.name = "clear" THEN Collect(RefClear(m))
    ELSE IF c.name = "undo" THEN Collect(RefUndo(m))
    ELSE IF c.name = "redo" THEN Collect(RefRedo(m))
    ELSE IF c.name = "hydrate" THEN Collect(RefHydrate(m, c.snapshot, c.opts))
    ELSE IF c.name \in {"subscribe", "subscribeAll", "unsubscribe",
                        "useBefore", "useAfter", "removeMiddleware"} THEN m
    ELSE NoHeap

\* The objects of a new instance: one empty table, both stacks empty.
NewHeap == [on |-> TRUE, heap |-> 1 :> EmptyTable, live |-> 1,
            hist |-> <<>>, fut |-> <<>>]

(***************************************************************************)
(* Actions: one per public method.  Done(w, c) is the return of call c     *)
(* that took the instance to w.                                            *)
(***************************************************************************)
Returned(w, c) ==
    /\ Becomes(w)
    /\ call' = [c EXCEPT !.bumped = w.version # version,
                         !.changed = w.state # state,
                         !.repeat = prior.name # "off" /\ Same(c, call)]
    /\ prior' = IF prior.name = "off" THEN prior ELSE Prior(call)
    /\ mem' = Track(mem, c, w)
    /\ UNCHANGED cap

\* A method called on the instance: the registry keeps what it holds.
Done(w, c) ==
    /\ Returned(w, c)
    /\ registry' = Holding(registry.inst)

Room == version < cap.version
StackRoom == Len(history) + Len(future) < cap.stack
RegRoom == Len(middlewares.before) + Len(middlewares.after) + nextId - 1 < cap.regs

Set(k, v) ==
    /\ Room /\ StackRoom
    /\ LET w == set(Self, k, v)
       IN  Done(w, Call("set", k, v, EmptyTable, DefaultOpts)) /\ ObserveSet(w)
    /\ UNCHANGED nextId

SetMany(u) ==
    /\ version + Len(u) <= cap.version
    /\ Len(history) + Len(future) + Len(u) <= cap.stack
    /\ Done(setMany(Self, u),
            [Call("setMany", NoKey, Undefined, EmptyTable, DefaultOpts)
                EXCEPT !.updates = u])
    /\ ObserveOther
    /\ UNCHANGED nextId

Remove(k) ==
    /\ Room
    /\ Done(remove(Self, k), Call("remove", k, Undefined, EmptyTable, DefaultOpts))
    /\ ObserveOther
    /\ UNCHANGED nextId

Clear ==
    /\ Room
    /\ Done(clear(Self), Call("clear", NoKey, Undefined, EmptyTable, DefaultOpts))
    /\ ObserveOther
    /\ UNCHANGED nextId

Undo ==
    /\ Room
    /\ Done(undo(Self), Call("undo", NoKey, Undefined, EmptyTable, DefaultOpts))
    /\ IF Len(history) = 0 THEN ObserveOther ELSE ObserveUndo
    /\ UNCHANGED nextId

Redo ==
    /\ Room
    /\ Done(redo(Self), Call("redo", NoKey, Undefined, EmptyTable, DefaultOpts))
    /\ IF Len(future) = 0 THEN ObserveOther ELSE ObserveRedo
    /\ UNCHANGED nextId

Hydrate(s, o) ==
    /\ Room
    /\ o.recordHistory => StackRoom
    /\ Done(hydrate(Self, s, o), Call("hydrate", NoKey, Undefined, s, o))
    /\ ObserveOther
    /\ UNCHANGED nextId

EnablePersistence(key) ==
    /\ Done(enablePersistence(Self, key),
            Call("enablePersistence", key, Undefined, EmptyTable, DefaultOpts))
    /\ ObserveOther
    /\ UNCHANGED nextId

Subscribe(k, once) ==
    /\ nextId <= cap.subs /\ RegRoom
    /\ Done(subscribe(Self, k, Callback(nextId, once)),
            Call("subscribe", k, Undefined, EmptyTable, DefaultOpts))
    /\ nextId' = nextId + 1
    /\ ObserveOther

\* subscribe(k, v => { if (v === 1) this.set(k, 2) })
SubscribeResetting(k) ==
    /\ nextId <= cap.subs /\ RegRoom
    /\ Done(subscribe(Self, k, Resetting(nextId)),
            Call("subscribe", k, Undefined, EmptyTable, DefaultOpts))
    /\ nextId' = nextId + 1
    /\ ObserveOther

SubscribeAll(once) ==
    /\ nextId <= cap.subs /\ RegRoom
    /\ Done(subscribeAll(Self, Callback(nextId, once)),
            Call("subscribeAll", NoKey, Undefined, EmptyTable, DefaultOpts))
    /\ nextId' = nextId + 1
    /\ ObserveOther

\* Calling the disposer that the subscribe / subscribeAll call id returned.
Unsubscribe(id) ==
    /\ id < nextId
    /\ Done(unsubscribe(Self, id),
            Call("unsubscribe", NoKey, id, EmptyTable, DefaultOpts))
    /\ ObserveOther
    /\ UNCHANGED nextId

UseBefore(fn) ==
    /\ Len(middlewares.before) < cap.before /\ RegRoom
    /\ Done(useBefore(Self, fn),
            Call("useBefore", fn, Undefined, EmptyTable, DefaultOpts))
    /\ ObserveOther
    /\ UNCHANGED nextId

UseAfter(fn) ==
    /\ Len(middlewares.after) < cap.after /\ RegRoom
    /\ Done(useAfter(Self, fn),
            Call("useAfter", fn, Undefined, EmptyTable, DefaultOpts))
    /\ ObserveOther
    /\ UNCHANGED nextId

RemoveMiddleware(type, fn) ==
    /\ Done(removeMiddleware(Self, type, fn),
            [Call("removeMiddleware", fn, Undefined, EmptyTable, DefaultOpts)
                EXCEPT !.phase = type])
    /\ ObserveOther
    /\ UNCHANGED nextId

\* A call of the registry: what it holds afterwards, what it returned.
Registered(g, o, force) ==
    registry' = [inst |-> g.inst, ret |-> g.inst, persist |-> o.persist,
                 force |-> force]

InitGlobalState(o, force) ==
    /\ force => registry.inst < cap.instances
    /\ LET g == initGlobalState(registry, Self, o, force)
       IN  /\ Returned(g.w, Call("initGlobalState", o.storageKey, Undefined,
                                 EmptyTable, DefaultOpts))
           /\ Registered(g, o, force)
    /\ ObserveOther
    /\ UNCHANGED nextId

GetGlobalState ==
    /\ LET g == getGlobalState(registry, Self)
       IN  /\ Returned(g.w, Call("getGlobalState", NoKey, Undefined,
                                 EmptyTable, DefaultOpts))
           /\ Registered(g, [persist |-> FALSE], FALSE)
    /\ ObserveOther
    /\ UNCHANGED nextId

EnableGlobalPersistence(key) ==
    /\ LET g == enableGlobalPersistence(registry, Self, key)
       IN  /\ Returned(g.w, Call("enableGlobalPersistence", key, Undefined,
                                 EmptyTable, DefaultOpts))
           /\ Registered(g, [persist |-> FALSE], FALSE)
    /\ ObserveOther
    /\ UNCHANGED nextId

(***************************************************************************)
(* The state after new GlobalState(options), for every choice of options   *)
(* and of the environment the instance is constructed in.                  *)
(***************************************************************************)
Constructed(w) ==
    /\ state = w.state
    /\ version = w.version
    /\ history = w.history
    /\ future = w.future
    /\ persist = w.persist
    /\ storageKey = w.storageKey
    /\ middlewares = w.middlewares
    /\ listeners = w.listeners
    /\ hasStorage = w.hasStorage
    /\ localStorage = w.localStorage
    /\ outcome = w.outcome
    /\ delivered = w.delivered
    /\ calls = w.calls
    /\ writes = w.writes
    /\ nextId = 1
    /\ call = Call("new", w.storageKey, Undefined, EmptyTable, DefaultOpts)

\* Environments: no localStorage at all, or a localStorage in which at
\* most one slot already holds a table.
Environments ==
    {e \in [avail : BOOLEAN, store : [StorageKeys -> InitialItems]] :
        /\ ~e.avail => \A k \in StorageKeys : e.store[k] = NoItem
        /\ \E k \in StorageKeys : e.store[k] = NoItem}

New(options, envs) ==
    \E o \in options, e \in envs :
        Constructed(construct(o.persist, o.storageKey, e.avail, e.store))

Options == [persist : BOOLEAN, storageKey : {"global-state"}]

Caps(v, st, b, a, su, rg, sq) ==
    [version |-> v, stack |-> st, before |-> b, after |-> a, subs |-> su,
     regs |-> rg, seq |-> sq, instances |-> 0]

(***************************************************************************)
(* Spec: every method, in short runs on one key with at most one           *)
(* registration at a time.                                                 *)
(***************************************************************************)
PlainOpts == {o \in Opts : o.emit /\ ~o.onlyNew /\ ~o.recordHistory}

Init ==
    /\ New(Options, {e \in Environments : e.store["app"] = NoItem})
    /\ cap = Caps(MaxVersion, MaxVersion, MaxRegs, MaxRegs, MaxRegs, MaxRegs, 0)
    /\ prior = Unobserved
    /\ rt = Off
    /\ mem = NoHeap
    /\ registry = Holding(Null)

Next ==
    \/ \E v \in Vals : Set("a", v)
    \/ Remove("a")
    \/ Clear
    \/ Undo
    \/ Redo
    \/ \E s \in {EmptyTable, "a" :> 1}, o \in PlainOpts : Hydrate(s, o)
    \/ \E key \in {NoKey, "app"} : EnablePersistence(key)
    \/ Subscribe("a", FALSE)
    \/ SubscribeAll(FALSE)
    \/ \E id \in 1..(MaxRegs + 1) : Unsubscribe(id)
    \/ \E fn \in {"guard", "check"} : UseBefore(fn)
    \/ UseAfter("check")
    \/ \E type \in {"before", "after"} : RemoveMiddleware(type, "check")

Spec == Init /\ [][Next]_vars

(***************************************************************************)
(* SpecSet: the set protocol under every chain of middleware and every     *)
(* list of listeners, with and without persistence.                        *)
(***************************************************************************)
\* Constructed persistent over a slot that holds a table, or not persistent
\* over an empty localStorage.
SetEnvironments(o) ==
    {e \in Environments :
        /\ e.avail
        /\ e.store["app"] = NoItem
        /\ e.store["global-state"] # NoItem <=> o.persist}

InitSet ==
    /\ \E o \in Options : New({o}, SetEnvironments(o))
    /\ cap = Caps(SetMaxVersion, SetMaxVersion, MaxBefore, MaxAfter, MaxSubs,
                  MaxBefore + MaxAfter + MaxSubs, 0)
    /\ prior = Unobserved
    /\ rt = Off
    /\ mem = NoHeap
    /\ registry = Holding(Null)

NextSet ==
    \/ \E k \in Keys, v \in AnyVals : Set(k, v)
    \/ \E fn \in Fns : UseBefore(fn)
    \/ \E fn \in {"bump", "check"} : UseAfter(fn)
    \/ Subscribe("a", FALSE)
    \/ SubscribeAll(FALSE)

SpecSet == InitSet /\ [][NextSet]_vars

(***************************************************************************)
(* SpecHistory: long runs of set, remove, clear, undo and redo, observed   *)
(* for set^n undo^n redo^n sequences.                                      *)
(***************************************************************************)
InitHistory ==
    /\ New({o \in Options : ~o.persist},
           {e \in Environments : ~e.avail})
    /\ cap = Caps(HistMaxVersion, MaxStack, HistMaxBefore, 0, 0, HistMaxBefore,
                  MaxSeq)
    /\ prior = Prior(call)
    /\ rt = Idle
    /\ mem = NoHeap
    /\ registry = Holding(Null)

NextHistory ==
    \/ \E v \in Vals : Set("a", v)
    \/ Set("b", 1)
    \/ \E k \in Keys : Remove(k)
    \/ Clear
    \/ Undo
    \/ Redo
    \/ UseBefore("guard")

SpecHistory == InitHistory /\ [][NextHistory]_vars

(***************************************************************************)
(* SpecHydrate: hydrate under every option, between sets and removes.      *)
(***************************************************************************)
InitHydrate ==
    /\ \E o \in Options : New({o}, SetEnvironments(o))
    /\ cap = Caps(HydMaxVersion, HydMaxVersion, 0, 0, MaxSubs, MaxSubs, 0)
    /\ prior = Prior(call)
    /\ rt = Off
    /\ mem = NoHeap
    /\ registry = Holding(Null)

NextHydrate ==
    \/ \E s \in Snapshots \ {"a" :> 1}, o \in Opts : Hydrate(s, o)
    \/ \E v \in AnyVals : Set("a", v)
    \/ Remove("a")
    \/ SubscribeAll(FALSE)

SpecHydrate == InitHydrate /\ [][NextHydrate]_vars

(***************************************************************************)
(* SpecRegistry: the singleton after the module is loaded (its last        *)
(* statement, globalState = getGlobalState(), has constructed instance 1), *)
(* used through the registry and directly.                                 *)
(***************************************************************************)
InitRegistry ==
    /\ \E e \in Environments :
          Constructed(getGlobalState(Holding(Null),
                                     [hasStorage |-> e.avail,
                                      localStorage |-> e.store]).w)
    /\ cap = [Caps(RegMaxVersion, RegMaxVersion, MaxRegs, 0, MaxRegs,
                   MaxRegs, 0) EXCEPT !.instances = MaxInstances]
    /\ prior = Prior(call)
    /\ rt = Off
    /\ mem = NoHeap
    /\ registry = Holding(1)

NextRegistry ==
    \/ \E o \in RegistryOptions, force \in BOOLEAN : InitGlobalState(o, force)
    \/ GetGlobalState
    \/ \E key \in {NoKey, "app"} : EnableGlobalPersistence(key)
    \/ Set("a", 1)
    \/ Undo
    \/ Subscribe("a", FALSE)
    \/ UseBefore("guard")

SpecRegistry == InitRegistry /\ [][NextRegistry]_vars

(***************************************************************************)
(* SpecMiddleware: registering and removing middleware, with the same      *)
(* function registered more than once and in both phases.                  *)
(***************************************************************************)
InitMiddleware ==
    /\ New({o \in Options : ~o.persist}, {e \in Environments : ~e.avail})
    /\ cap = Caps(MwMaxVersion, MwMaxVersion, MaxChain, MaxChain, 0, MaxChain, 0)
    /\ prior = Unobserved
    /\ rt = Off
    /\ mem = NoHeap
    /\ registry = Holding(Null)

NextMiddleware ==
    \/ \E fn \in {"guard", "flip"} : UseBefore(fn)
    \/ \E fn \in {"guard", "flip"} : UseAfter(fn)
    \/ \E type \in {"before", "after"}, fn \in {"guard", "flip", "check"} :
          RemoveMiddleware(type, fn)
    \/ \E v \in Vals : Set("a", v)

SpecMiddleware == InitMiddleware /\ [][NextMiddleware]_vars

(***************************************************************************)
(* SpecEvents: subscribing, disposing (from outside, and by callbacks      *)
(* that dispose of themselves when notified) and emitting.                 *)
(***************************************************************************)
InitEvents ==
    /\ New({o \in Options : ~o.persist}, {e \in Environments : ~e.avail})
    /\ cap = Caps(EvMaxVersion, EvMaxVersion, 0, 0, EvMaxSubs, EvMaxSubs, 0)
    /\ prior = Prior(call)
    /\ rt = Off
    /\ mem = NoHeap
    /\ registry = Holding(Null)

NextEvents ==
    \/ \E k \in Keys, once \in BOOLEAN : Subscribe(k, once)
    \/ \E once \in BOOLEAN : SubscribeAll(once)
    \/ \E id \in 1..EvMaxSubs : Unsubscribe(id)
    \/ \E k \in Keys : Set(k, 1)
    \/ Remove("a")
    \/ Clear

SpecEvents == InitEvents /\ [][NextEvents]_vars

(***************************************************************************)
(* SpecMany: setMany over both keys with at most one before-middleware,    *)
(* and undo.                                                               *)
(***************************************************************************)
InitMany ==
    /\ \E o \in Options : New({o}, SetEnvironments(o))
    /\ cap = Caps(ManyMaxVersion, ManyMaxVersion, ManyMaxBefore, 0, 0,
                  ManyMaxBefore, 0)
    /\ prior = Unobserved
    /\ rt = Off
    /\ mem = NoHeap
    /\ registry = Holding(Null)

NextMany ==
    \/ \E u \in Updates : SetMany(u)
    \/ \E fn \in {"guard", "flip", "check"} : UseBefore(fn)
    \/ Undo

SpecMany == InitMany /\ [][NextMany]_vars

(***************************************************************************)
(* SpecOrder: one set on an instance with a before-middleware, up to two   *)
(* after-middleware and up to two subscribers, with and without            *)
(* persistence.                                                            *)
(***************************************************************************)
InitOrder ==
    /\ \E o \in Options : New({o}, SetEnvironments(o))
    /\ cap = Caps(OrdMaxVersion, OrdMaxVersion, OrdMaxBefore, OrdMaxAfter,
                  OrdMaxSubs, OrdMaxBefore + OrdMaxAfter + OrdMaxSubs, 0)
    /\ prior = Unobserved
    /\ rt = Off
    /\ mem = NoHeap
    /\ registry = Holding(Null)

NextOrder ==
    \/ \E v \in Vals : Set("a", v)
    \/ UseBefore("bump")
    \/ \E fn \in {"guard", "flip", "check"} : UseAfter(fn)
    \/ Subscribe("a", FALSE)
    \/ SubscribeAll(FALSE)

SpecOrder == InitOrder /\ [][NextOrder]_vars

(***************************************************************************)
(* SpecFuture: every mutation interleaved with undo and redo, on an        *)
(* instance without persistence, with the previous call observed.          *)
(***************************************************************************)
InitFuture ==
    /\ New({o \in Options : ~o.persist}, {e \in Environments : ~e.avail})
    /\ cap = Caps(FutMaxVersion, FutMaxStack, 0, 0, 0, 0, 0)
    /\ prior = Prior(call)
    /\ rt = Off
    /\ mem = NewHeap
    /\ registry = Holding(Null)

NextFuture ==
    \/ \E k \in Keys : Set(k, 1)
    \/ Remove("a")
    \/ Clear
    \/ \E o \in {p \in Opts : p.emit /\ ~p.onlyNew} : Hydrate("b" :> 1, o)
    \/ Undo
    \/ Redo

SpecFuture == InitFuture /\ [][NextFuture]_vars

(***************************************************************************)
(* SpecPersist: an instance that starts without persistence and is made    *)
(* persistent late, under its own key or under "app", with subscribers     *)
(* registered before and after.                                            *)
(***************************************************************************)
\* A localStorage whose slot "app" holds a table without the key "a".
AppEnvironment ==
    [avail |-> TRUE,
     store |-> [k \in StorageKeys |->
                  IF k = "app" THEN Item("b" :> 2) ELSE NoItem]]

InitPersist ==
    /\ New({o \in Options : ~o.persist},
           {e \in Environments : \A k \in StorageKeys : e.store[k] = NoItem}
              \cup {AppEnvironment})
    /\ cap = Caps(PerMaxVersion, PerMaxVersion, 0, 0, PerMaxSubs, PerMaxSubs, 0)
    /\ prior = Unobserved
    /\ rt = Off
    /\ mem = NoHeap
    /\ registry = Holding(Null)

NextPersist ==
    \/ \E key \in {NoKey, "app"} : EnablePersistence(key)
    \/ Set("a", 1)
    \/ Clear
    \/ Undo
    \/ Subscribe("a", FALSE)
    \/ SubscribeAll(FALSE)
    \/ \E id \in 1..PerMaxSubs : Unsubscribe(id)

SpecPersist == InitPersist /\ [][NextPersist]_vars

(***************************************************************************)
(* SpecMerge: one merge-mode hydrate on an instance with subscribers and   *)
(* middleware registered, with and without persistence.                    *)
(***************************************************************************)
InitMerge ==
    /\ \E o \in Options : New({o}, SetEnvironments(o))
    /\ cap = Caps(MergeMaxVersion, MergeMaxVersion, MergeMaxMw, MergeMaxMw,
                  MergeMaxSubs, MergeMaxSubs + 2 * MergeMaxMw, 0)
    /\ prior = Unobserved
    /\ rt = Off
    /\ mem = NoHeap
    /\ registry = Holding(Null)

NextMerge ==
    \/ \E s \in {"a" :> 1, "a" :> 2 @@ "b" :> 1},
          o \in {p \in Opts : p.mode = "merge" /\ ~p.recordHistory} :
             Hydrate(s, o)
    \/ Subscribe("a", FALSE)
    \/ SubscribeAll(FALSE)
    \/ UseBefore("check")
    \/ UseAfter("check")

SpecMerge == InitMerge /\ [][NextMerge]_vars

(***************************************************************************)
(* SpecStale: whole-table operations on an instance with per-key and       *)
(* wildcard subscribers, with the previous call observed.                  *)
(***************************************************************************)
InitStale ==
    /\ New({o \in Options : ~o.persist}, {e \in Environments : ~e.avail})
    /\ cap = Caps(StaleMaxVersion, StaleMaxVersion, 0, 0, StaleMaxSubs,
                  StaleMaxSubs, 0)
    /\ prior = Prior(call)
    /\ rt = Off
    /\ mem = NoHeap
    /\ registry = Holding(Null)

NextStale ==
    \/ Subscribe("a", FALSE)
    \/ SubscribeAll(FALSE)
    \/ \E v \in Vals : Set("a", v)
    \/ Undo
    \/ Redo
    \/ Clear
    \/ \E o \in {p \in Opts : p.emit /\ ~p.onlyNew /\ ~p.recordHistory} :
          Hydrate("a" :> 2, o)

SpecStale == InitStale /\ [][NextStale]_vars

(***************************************************************************)
(* SpecLeave: chains holding functions that remove a function of the       *)
(* running phase, with the previous call observed.  No function of these   *)
(* chains aborts or throws, so every chain runs to its end.                *)
(***************************************************************************)
InitLeave ==
    /\ New({o \in Options : ~o.persist}, {e \in Environments : ~e.avail})
    /\ cap = Caps(LeaveMaxVersion, LeaveMaxVersion, LeaveMaxBefore,
                  LeaveMaxAfter, 0, LeaveMaxBefore + LeaveMaxAfter, 0)
    /\ prior = Prior(call)
    /\ rt = Off
    /\ mem = NoHeap
    /\ registry = Holding(Null)

NextLeave ==
    \/ \E fn \in {"leave", "evict", "flip", "bump"} : UseBefore(fn)
    \/ \E fn \in {"leave", "flip"} : UseAfter(fn)
    \/ \E v \in Vals : Set("a", v)

SpecLeave == InitLeave /\ [][NextLeave]_vars

(***************************************************************************)
(* SpecNested: set called again from inside a running set, by a callback   *)
(* that answers the value 1 with set(a, 2) and by the before-middleware    *)
(* "again", which repeats the set it is asked about.                       *)
(***************************************************************************)
InitNested ==
    /\ New({o \in Options : ~o.persist}, {e \in Environments : ~e.avail})
    /\ cap = Caps(NestMaxVersion, NestMaxVersion + 2, 1, 0, NestMaxSubs,
                  NestMaxSubs + 1, 0)
    /\ prior = Unobserved
    /\ rt = Off
    /\ mem = NoHeap
    /\ registry = Holding(Null)

NextNested ==
    \/ Subscribe("a", FALSE)
    \/ SubscribeResetting("a")
    \/ SubscribeAll(FALSE)
    \/ UseBefore("again")
    \/ RemoveMiddleware("before", "again")
    \/ \E v \in Vals : Set("a", v)

SpecNested == InitNested /\ [][NextNested]_vars

(***************************************************************************)
(* Properties.  The middleware invocations of a call, by phase.            *)
(***************************************************************************)
BeforeCalls(log) == SelectSeq(log, LAMBDA c : c.type = "before")
AfterCalls(log) == SelectSeq(log, LAMBDA c : c.type = "after")

\* The value a chain of invocations leaves in the context that began as v.
Left(log, v) ==
    IF Len(log) = 0 THEN v
    ELSE IF Top(log).res.kind = "value" THEN Top(log).res.value
    ELSE Top(log).value

\* C1: when set(k, v) returns and no before-middleware aborted, overrode or
\* threw, get(k) = v and version is strictly greater than before the call.
C1_SetThenGet ==
    [][(/\ call'.name = "set"
        /\ outcome' = "returned"
        /\ \A i \in 1..Len(calls') :
              calls'[i].type = "before" => calls'[i].res.kind = "void")
       => (/\ Get(state', call'.key) = call'.value
           /\ version' > version)]_vars

C1_Witness ==
    /\ call.name = "set"
    /\ outcome = "returned"
    /\ call.value # Undefined
    /\ Len(BeforeCalls(calls)) = 2
    /\ \A i \in 1..Len(calls) :
          calls[i].type = "before" => calls[i].res.kind = "void"
    /\ Get(state, call.key) = call.value
    /\ Len(history) = 1

\* C2: a set in which a before-middleware returns false leaves table,
\* version, both stacks and the store unchanged, delivers no notification,
\* writes nothing, runs no after-middleware and invokes no before-middleware
\* registered after the aborting one.
C2_Veto ==
    [][(/\ call'.name = "set"
        /\ \E i \in 1..Len(calls') :
              calls'[i].type = "before" /\ calls'[i].res.kind = "false")
       => (/\ UNCHANGED <<state, version, history, future, localStorage>>
           /\ delivered' = <<>>
           /\ writes' = <<>>
           /\ Len(calls') <= Len(middlewares.before)
           /\ \A i \in 1..Len(calls') :
                 /\ calls'[i].type = "before"
                 /\ calls'[i].fn = middlewares.before[i]
                 /\ calls'[i].res.kind = "false" => i = Len(calls'))]_vars

C2_Witness ==
    /\ call.name = "set"
    /\ outcome = "aborted"
    /\ Len(calls) = 1
    /\ calls[1].res.kind = "false"
    /\ Len(middlewares.before) = 2
    /\ Len(middlewares.after) = 1
    /\ persist /\ hasStorage
    /\ \E i \in 1..Len(listeners) :
          listeners[i].event \in {EventName(storageKey, call.key),
                                  EventName(storageKey, Wildcard)}
    /\ call.key \in DOMAIN state /\ state[call.key] # call.value

C4_RoundTrip ==
    /\ rt.phase = "undos" /\ rt.i = rt.n => state = rt.pre
    /\ rt.phase = "redos" /\ rt.i = rt.n => state = rt.post

C4_Witness ==
    /\ rt.phase = "redos" /\ rt.i = rt.n
    /\ rt.n = 2
    /\ rt.fut0
    /\ rt.pre # rt.post
    /\ state = rt.post

\* C5 as stated: undo() right after remove(k) of a present key leaves k
\* absent.
C5_RemoveUndoKeepsAbsent ==
    [][(call.name = "remove" /\ call.bumped /\ call'.name = "undo")
       => call.key \notin DOMAIN state']_vars

\* C5 as amended: remove pushes no snapshot, and undo() right after
\* remove(k) of a present key restores the snapshot on top of history, so
\* that k is present afterwards exactly if that snapshot holds it; with an
\* empty history the table stays as remove left it.
C5_RemoveUndoRestoresTop ==
    [][/\ call'.name = "remove" => UNCHANGED <<history, future>>
       /\ (call.name = "remove" /\ call.bumped /\ call'.name = "undo") =>
             /\ state' = IF Len(history) = 0 THEN state ELSE Top(history)
             /\ call.key \in DOMAIN state' <=>
                   (Len(history) > 0 /\ call.key \in DOMAIN Top(history))]_vars

C5_Witness ==
    /\ prior.name = "remove" /\ prior.bumped
    /\ call.name = "undo" /\ call.bumped
    /\ prior.key \in DOMAIN state

\* C6: version starts at 0 and each call changes it by exactly 1 if it is a
\* committed set, a remove of a present key, a clear, an undo with history,
\* a redo with future or a hydrate that reports a change, and by 0 if not.
Increments ==
    CASE call'.name = "set" ->
            \A i \in 1..Len(calls') :
                calls'[i].type = "before" =>
                    calls'[i].res.kind \notin {"false", "throw"}
      [] call'.name = "remove" -> call'.key \in DOMAIN state
      [] call'.name = "clear" -> TRUE
      [] call'.name = "undo" -> Len(history) > 0
      [] call'.name = "redo" -> Len(future) > 0
      [] call'.name = "hydrate" ->
            IF call'.opts.mode = "replace"
            THEN DOMAIN state # {} \/ DOMAIN call'.snapshot # {}
            ELSE \E k \in DOMAIN call'.snapshot :
                    /\ call'.snapshot[k] # Undefined
                    /\ call'.snapshot[k] # Get(state, k)
                    /\ call'.opts.onlyNew => Get(state, k) = Undefined
      [] OTHER -> FALSE

C6_Version ==
    /\ version = 0
    /\ [][version' = IF Increments THEN version + 1 ELSE version]_vars

C6_Witness ==
    /\ call.name = "redo" /\ call.bumped
    /\ version = 3
    /\ Len(middlewares.before) + Len(middlewares.after) + Len(listeners) = 1

\* C7: between two points with the same version the table is the same.
C7_VersionDeterminesTable ==
    [][version' = version => state' = state]_vars

\* C8: every set, remove, clear, undo, redo or emitting hydrate that
\* changes the table delivers a notification to every registered
\* subscribeAll callback.
C8_WildcardOnEveryChange ==
    [][(/\ call'.name \in {"set", "remove", "clear", "undo", "redo", "hydrate"}
        /\ call'.name = "hydrate" => call'.opts.emit
        /\ state' # state)
       => \A i \in 1..Len(listeners) :
             listeners[i].event[2] = Wildcard =>
                \E j \in 1..Len(delivered') :
                    delivered'[j].id = listeners[i].id]_vars

\* C9: a merge-mode hydrate that repeats the hydrate before it (same
\* snapshot, same options) changes neither table nor version, delivers no
\* notification and writes nothing to the store.
C9_HydrateTwice ==
    [][(/\ call.name = "hydrate" /\ call'.name = "hydrate"
        /\ call'.opts.mode = "merge"
        /\ call'.snapshot = call.snapshot /\ call'.opts = call.opts)
       => (/\ UNCHANGED <<state, version, localStorage>>
           /\ delivered' = <<>>
           /\ writes' = <<>>)]_vars

C9_Witness ==
    /\ call.name = "hydrate" /\ call.repeat /\ call.opts.mode = "merge"
    /\ prior.name = "hydrate" /\ prior.bumped
    /\ call.opts.emit
    /\ persist /\ hasStorage
    /\ \E i \in 1..Len(listeners) :
          listeners[i].event = EventName(storageKey, Wildcard)
    /\ ~call.bumped

\* C10 as stated: hydrate increments version or writes to the store only
\* if the table after the call differs from the table before it.
C10_OnlyIfChanged ==
    [][(call'.name = "hydrate" /\ (version' # version \/ writes' # <<>>))
       => state' # state]_vars

\* C10 as amended: hydrate increments version or writes to the store only
\* if the table after the call differs from the table before it, or the
\* mode is replace and the prior table or the snapshot is non-empty.
C10_OnlyIfChangedOrReplaced ==
    [][(call'.name = "hydrate" /\ (version' # version \/ writes' # <<>>))
       => \/ state' # state
          \/ /\ call'.opts.mode = "replace"
             /\ DOMAIN state # {} \/ DOMAIN call'.snapshot # {}]_vars

C10_Witness ==
    /\ call.name = "hydrate" /\ call.repeat /\ call.opts.mode = "replace"
    /\ call.bumped
    /\ state = call.snapshot
    /\ writes # <<>>

\* C11 as stated: an instance constructed persistent over an available
\* store whose slot holds a table begins with that table, version 0 and an
\* empty history; and after every set that commits, the slot holds the
\* serialization of the whole live table, in which the key has the
\* committed value.
C11_LoadedThenSaved ==
    /\ (call.name = "new" /\ persist /\ hasStorage /\ localStorage[storageKey].has)
          => /\ state = Parse(localStorage[storageKey].text)
             /\ version = 0
             /\ history = <<>>
    /\ [][(call'.name = "set" /\ version' # version /\ persist /\ hasStorage)
          => /\ localStorage'[storageKey'] = Item(Stringify(state'))
             /\ Get(state', call'.key) = Left(BeforeCalls(calls'), call'.value)]_vars

\* C11 as amended: the same, for every set that commits and returns; a
\* set whose after-middleware throws has committed and leaves the store as
\* it was.
C11_LoadedThenSavedOnReturn ==
    /\ (call.name = "new" /\ persist /\ hasStorage /\ localStorage[storageKey].has)
          => /\ state = Parse(localStorage[storageKey].text)
             /\ version = 0
             /\ history = <<>>
    /\ [][(call'.name = "set" /\ version' # version /\ persist /\ hasStorage)
          => /\ Get(state', call'.key) = Left(BeforeCalls(calls'), call'.value)
             /\ IF outcome' = "returned"
                THEN localStorage'[storageKey'] = Item(Stringify(state'))
                ELSE /\ outcome' = "threw:after"
                     /\ localStorage' = localStorage]_vars

C11_Witness ==
    /\ call.name = "set" /\ call.key = "a" /\ call.value = 2
    /\ outcome = "returned"
    /\ persist /\ hasStorage
    /\ version = 1
    /\ state = ("a" :> 2 @@ "b" :> 2)
    /\ localStorage[storageKey] = Item(Stringify(state))

\* What C12 says of the calls before and at the enabling: a call that
\* leaves the instance non-persistent writes nothing to the store; an
\* enablePersistence(key) on a non-persistent instance with the store
\* available makes it persistent under key (under the slot key it had, if
\* no key is given) and writes that slot once; from then on the instance
\* stays persistent under that slot key.
EnablesOnce ==
    /\ ~persist' => (writes' = <<>> /\ localStorage' = localStorage)
    /\ (call'.name = "enablePersistence" /\ ~persist /\ hasStorage)
          => /\ persist'
             /\ storageKey' = IF call'.key # NoKey THEN call'.key ELSE storageKey
             /\ Len(writes') = 1
             /\ writes'[1].key = storageKey'
    /\ persist => (persist' /\ storageKey' = storageKey)

\* C12 as stated: EnablesOnce, and every mutation that commits on a
\* persistent instance with the store available leaves the slot holding
\* the serialization of the live table.
C12_LateEnable ==
    [][/\ EnablesOnce
       /\ (persist /\ hasStorage /\ version' # version)
             => localStorage'[storageKey'] = Item(Stringify(state'))]_vars

\* C12 as amended: EnablesOnce, and every mutation that commits and
\* returns on a persistent instance with the store available leaves the
\* slot holding the serialization of the live table; a set that commits and
\* whose after-middleware throws leaves the store as it was.
C12_LateEnableOnReturn ==
    [][/\ EnablesOnce
       /\ (persist /\ hasStorage /\ version' # version)
             => IF outcome' = "returned"
                THEN localStorage'[storageKey'] = Item(Stringify(state'))
                ELSE /\ call'.name = "set" /\ outcome' = "threw:after"
                     /\ localStorage' = localStorage]_vars

C12_Witness ==
    /\ persist /\ hasStorage /\ storageKey = "app"
    /\ call.name = "undo" /\ call.bumped
    /\ state # EmptyTable
    /\ writes = <<[key |-> "app", text |-> Stringify(state)]>>
    /\ localStorage["app"] = Item(Stringify(state))
    /\ ~localStorage["global-state"].has

\* The method that call c names, applied to the instance w.
Apply(w, c) ==
    CASE c.name = "set" -> set(w, c.key, c.value)
      [] c.name = "remove" -> remove(w, c.key)
      [] c.name = "clear" -> clear(w)
      [] c.name = "undo" -> undo(w)
      [] c.name = "redo" -> redo(w)
      [] c.name = "hydrate" -> hydrate(w, c.snapshot, c.opts)
      [] c.name = "enablePersistence" -> enablePersistence(w, c.key)
      [] OTHER -> w

Mutations == {"set", "remove", "clear", "undo", "redo", "hydrate"}

\* C13: without a store, an instance constructed with persist: true
\* begins as a non-persistent one does; enablePersistence changes nothing
\* of table, version, stacks, and notifies nobody; every set, remove, clear,
\* undo, redo and hydrate has the table, version, stacks, notifications,
\* middleware calls and outcome that the same call has on the same
\* instance with persistence off, and throws only if a middleware threw;
\* and none of them writes to the store.
C13_NoStore ==
    /\ (call.name = "new" /\ ~hasStorage)
          => /\ Self = [construct(FALSE, storageKey, FALSE, localStorage)
                          EXCEPT !.persist = persist]
    /\ [][(~hasStorage /\ call'.name \in Mutations \cup {"enablePersistence"})
          => LET r == Apply([Self EXCEPT !.persist = FALSE], call')
             IN  /\ localStorage' = localStorage
                 /\ writes' = <<>>
                 /\ outcome' \in {"threw:before", "threw:after"} =>
                       \E i \in 1..Len(calls') : calls'[i].res.kind = "throw"
                 /\ call'.name \in Mutations =>
                       /\ <<state', version', history', future'>>
                             = <<r.state, r.version, r.history, r.future>>
                       /\ <<delivered', calls', outcome'>>
                             = <<r.delivered, r.calls, r.outcome>>
                       /\ <<listeners', middlewares'>>
                             = <<r.listeners, r.middlewares>>
                 /\ call'.name = "enablePersistence" =>
                       /\ UNCHANGED <<state, version, history, future>>
                       /\ UNCHANGED <<listeners, middlewares>>
                       /\ delivered' = <<>> /\ outcome' = "returned"]_vars

C13_Witness ==
    /\ ~hasStorage /\ persist
    /\ call.name = "hydrate" /\ call.bumped
    /\ Len(delivered) = 1
    /\ version = 2
    /\ \A k \in StorageKeys : ~localStorage[k].has

\* C14: undo() on an empty history and redo() on an empty future return
\* without an error and change neither table, version, stacks nor store,
\* deliver no notification and write nothing.
C14_EmptyStackNoOp ==
    [][(\/ call'.name = "undo" /\ Len(history) = 0
        \/ call'.name = "redo" /\ Len(future) = 0)
       => (/\ outcome' = "returned"
           /\ UNCHANGED <<state, version, history, future, localStorage>>
           /\ delivered' = <<>>
           /\ writes' = <<>>)]_vars

C14_Witness ==
    /\ call.name = "undo" /\ ~call.bumped
    /\ Len(history) = 0 /\ Len(future) = 1
    /\ state # EmptyTable
    /\ persist /\ hasStorage
    /\ \E i \in 1..Len(listeners) :
          listeners[i].event = EventName(storageKey, Wildcard)

\* C15: on a persistent instance with the store available, every set that
\* commits, remove of a present key, clear, undo with history, redo with
\* future and changed hydrate that returns normally makes exactly one write,
\* of the serialization of the whole live table, to the slot of the
\* instance's slot key, which holds it when the call returns.
C15_FullTableWrite ==
    [][(/\ persist /\ hasStorage
        /\ call'.name \in Mutations
        /\ version' # version
        /\ outcome' = "returned")
       => (/\ writes' = <<[key |-> storageKey, text |-> Stringify(state')]>>
           /\ localStorage'[storageKey] = Item(Stringify(state'))
           /\ \A k \in StorageKeys \ {storageKey} :
                 localStorage'[k] = localStorage[k])]_vars

C15_Witness ==
    /\ persist /\ hasStorage
    /\ call.name = "remove" /\ call.bumped
    /\ state = ("b" :> 2)
    /\ writes = <<[key |-> storageKey, text |-> state]>>
    /\ localStorage[storageKey] = Item(state)

\* What C16 says apart from the table: a call other than a forced
\* initGlobalState leaves the registry holding the instance it held, and
\* initGlobalState and getGlobalState return the instance the registry
\* holds afterwards; an unforced initGlobalState and getGlobalState leave
\* the stacks, the middleware and the subscribers of that instance as they
\* were; initGlobalState(options, true) makes the registry hold a new
\* instance, which is as new GlobalState(options) makes it: version 0,
\* empty stacks, no middleware, no subscriber.
SingletonKept ==
    /\ registry.inst # Null
    /\ (call'.name = "initGlobalState" /\ registry'.force)
          => /\ registry'.inst \notin 0..registry.inst
             /\ registry'.ret = registry'.inst
             /\ Self' = createState(Self, [persist |-> registry'.persist,
                                           storageKey |-> call'.key])
             /\ version' = 0 /\ history' = <<>> /\ future' = <<>>
             /\ listeners' = <<>>
             /\ middlewares' = [before |-> <<>>, after |-> <<>>]
    /\ ~(call'.name = "initGlobalState" /\ registry'.force)
          => registry'.inst = registry.inst
    /\ (call'.name = "initGlobalState" /\ ~registry'.force)
          => /\ registry'.ret = registry.inst
             /\ UNCHANGED <<history, future, middlewares, listeners, version>>
    /\ call'.name = "getGlobalState"
          => /\ registry'.ret = registry.inst
             /\ UNCHANGED <<state, history, future, middlewares, listeners,
                            version, persist, storageKey, localStorage>>

\* C16 as stated: SingletonKept, and an unforced initGlobalState leaves the
\* table of the singleton as it was.
C16_SingletonIntact ==
    [][/\ SingletonKept
       /\ (call'.name = "initGlobalState" /\ ~registry'.force)
             => state' = state]_vars

\* C16 as amended: SingletonKept, and an unforced initGlobalState leaves
\* the table of the singleton as it was unless it asks for persistence on
\* a singleton that is not persistent, the store is available and the slot
\* holds a table: the table is then the stored one.
C16_SingletonIntactUnlessLoaded ==
    [][/\ SingletonKept
       /\ (call'.name = "initGlobalState" /\ ~registry'.force)
             => state' = IF /\ registry'.persist /\ ~persist /\ hasStorage
                            /\ localStorage[storageKey'].has
                         THEN Parse(localStorage[storageKey'].text)
                         ELSE state]_vars

C16_Witness ==
    /\ call.name = "initGlobalState" /\ registry.force
    /\ registry.inst = 2 /\ registry.ret = 2
    /\ prior.name = "set" /\ prior.bumped
    /\ nextId > 1
    /\ version = 0 /\ history = <<>> /\ listeners = <<>>
    /\ state = EmptyTable

\* C17: an unforced initGlobalState({persist: true, storageKey}) on a
\* non-persistent singleton leaves the registry holding the same instance,
\* on which it has the effect of enablePersistence(storageKey): the
\* instance is persistent, under storageKey if one is given; in every
\* other unforced case (singleton already persistent, or persist false or
\* absent) it changes nothing of the instance nor of the store.
C17_UpgradeInPlace ==
    [][(call'.name = "initGlobalState" /\ ~registry'.force)
       => /\ registry'.inst = registry.inst
          /\ registry'.ret = registry.inst
          /\ IF registry'.persist /\ ~persist
             THEN /\ LET e == enablePersistence(Self, call'.key)
                     IN  <<state', localStorage', writes'>>
                            = <<e.state, e.localStorage, e.writes>>
                  /\ persist'
                  /\ storageKey' = IF call'.key # NoKey THEN call'.key
                                   ELSE storageKey
                  /\ UNCHANGED <<version, history, future, middlewares,
                                 listeners>>
             ELSE /\ UNCHANGED <<state, version, history, future, persist,
                                 storageKey, middlewares, listeners,
                                 localStorage>>
                  /\ writes' = <<>>]_vars

C17_Witness ==
    /\ call.name = "initGlobalState" /\ ~registry.force /\ registry.persist
    /\ call.key = "app"
    /\ registry.inst = 1 /\ registry.ret = 1
    /\ persist /\ storageKey = "app"
    /\ version = 1 /\ Len(history) = 1
    /\ writes = <<[key |-> "app", text |-> Stringify(state)]>>

\* C18: removeMiddleware(phase, fn) takes the first occurrence of fn out
\* of that phase's list, keeps the other entries in their order, leaves the
\* other phase's list alone, and changes nothing if fn is not in the list;
\* and a set invokes only functions that are in the lists when it is
\* called, so none that has no occurrence left.
C18_RemoveFirst ==
    [][/\ call'.name = "removeMiddleware" =>
             LET type == call'.phase
                 list == middlewares[type]
                 occ == {i \in 1..Len(list) : list[i] = call'.key}
             IN  /\ \A t \in {"before", "after"} \ {type} :
                       middlewares'[t] = middlewares[t]
                 /\ IF occ = {} THEN middlewares'[type] = list
                    ELSE LET m == CHOOSE i \in occ : \A j \in occ : i <= j
                         IN  middlewares'[type] =
                                [i \in 1..(Len(list) - 1) |->
                                    IF i < m THEN list[i] ELSE list[i + 1]]
                 /\ UNCHANGED <<state, version, history, future, listeners>>
       /\ call'.name = "set" =>
             \A i \in 1..Len(calls') :
                \E j \in 1..Len(middlewares[calls'[i].type]) :
                    middlewares[calls'[i].type][j] = calls'[i].fn]_vars

C18_Witness ==
    /\ call.name = "removeMiddleware"
    /\ call.phase = "before" /\ call.key = "guard"
    /\ middlewares.before = <<"flip", "guard">>
    /\ middlewares.after = <<>>

\* The callbacks registered in a list of listeners.
Ids(ls) == {ls[i].id : i \in 1..Len(ls)}

\* C19: a call invokes only callbacks that are registered when it is made,
\* and a callback whose disposer has been called is never registered again,
\* so it is never invoked again; a disposer takes out its own listener,
\* leaves the others in their order and changes nothing when called again;
\* a callback that calls its disposer from inside its notification is
\* notified that once and is gone afterwards, while no other listener is;
\* and every set still notifies each listener registered for its key or
\* for the wildcard.
C19_Disposer ==
    [][/\ \A j \in 1..Len(delivered') : delivered'[j].id \in Ids(listeners)
       /\ \A id \in 1..(nextId - 1) :
             id \notin Ids(listeners) => id \notin Ids(listeners')
       /\ call'.name = "unsubscribe" =>
             /\ listeners' = SelectSeq(listeners, LAMBDA l : l.id # call'.value)
             /\ call'.value \notin Ids(listeners) => listeners' = listeners
             /\ delivered' = <<>>
             /\ UNCHANGED <<state, version, history, future>>
       /\ call'.name \in Mutations =>
             listeners' = SelectSeq(listeners, LAMBDA l :
                             ~(l.once /\ \E j \in 1..Len(delivered') :
                                            delivered'[j].id = l.id))
       /\ call'.name = "set" =>
             \A i \in 1..Len(listeners) :
                listeners[i].event \in {EventName(storageKey, call'.key),
                                        EventName(storageKey, Wildcard)}
                   => \E j \in 1..Len(delivered') :
                         delivered'[j].id = listeners[i].id]_vars

C19_Witness ==
    /\ call.name = "set" /\ prior.name = "set" /\ prior.bumped
    /\ nextId = 3
    /\ Len(listeners) = 1 /\ listeners[1].id = 2
    /\ listeners[1].event = EventName(storageKey, Wildcard)
    /\ Len(delivered) = 1 /\ delivered[1].id = 2

\* C20: hydrate(s, {mode: 'merge', onlyNew: true}) leaves every key that
\* held a defined value with that value, removes no key, and gives a new
\* value only to keys of s that were absent or undefined, namely the
\* defined value s has for them.
C20_OnlyNewKeeps ==
    [][(/\ call'.name = "hydrate"
        /\ call'.opts.mode = "merge"
        /\ call'.opts.onlyNew)
       => (/\ DOMAIN state \subseteq DOMAIN state'
           /\ \A k \in DOMAIN state :
                 state[k] # Undefined => state'[k] = state[k]
           /\ \A k \in DOMAIN state' :
                 Get(state, k) # state'[k] =>
                    /\ k \in DOMAIN call'.snapshot
                    /\ Get(state, k) = Undefined
                    /\ state'[k] = call'.snapshot[k]
                    /\ state'[k] # Undefined)]_vars

C20_Witness ==
    /\ call.name = "hydrate" /\ call.opts.mode = "merge" /\ call.opts.onlyNew
    /\ call.bumped
    /\ call.snapshot = ("a" :> 2 @@ "b" :> 1)
    /\ state = ("a" :> 1 @@ "b" :> 1)

\* The instance after n calls of undo.
RECURSIVE Undone(_, _)
Undone(w, n) == IF n = 0 THEN w ELSE Undone(undo(w), n - 1)

\* C21: setMany(updates) runs one set per entry whose value is defined, in
\* the order of the mapping, and passes over entries whose value is
\* undefined: each applied entry pushes one history entry and increments
\* version once, so that as many undos as applied entries bring the table
\* back, and an entry that a before-middleware vetoes is the only one left
\* out.
C21_SetMany ==
    [][call'.name = "setMany" /\ outcome' = "returned" =>
        LET u == call'.updates
            Of(i) == {j \in 1..Len(calls') : calls'[j].key = u[i].key}
            Vetoed(i) == \E j \in Of(i) : calls'[j].res = False
            Applied == {i \in 1..Len(u) : u[i].value # Undefined /\ ~Vetoed(i)}
            n == Cardinality(Applied)
        IN  /\ version' = version + n
            /\ Len(history') = Len(history) + n
            /\ SubSeq(history', 1, Len(history)) = history
            /\ n > 0 => history'[Len(history) + 1] = state
            /\ future' = future
            /\ \A i \in 1..Len(u) :
                /\ u[i].value = Undefined => Of(i) = {}
                /\ u[i].value # Undefined =>
                      \A m \in 1..Len(middlewares.before) :
                          \/ \E j \in Of(i) : calls'[j].fn = middlewares.before[m]
                          \/ \E j \in Of(i) : calls'[j].res = False
                /\ i \in Applied =>
                      /\ u[i].key \in DOMAIN state'
                      /\ (\A j \in Of(i) : calls'[j].res = Void)
                            => state'[u[i].key] = u[i].value
                /\ i \notin Applied => Get(state', u[i].key) = Get(state, u[i].key)
                /\ \A h \in 1..Len(u) :
                      h < i => \A j \in Of(h), l \in Of(i) : j < l
            /\ \A i \in Applied, h \in Applied :
                  h < i => u[h].key \in DOMAIN history'[Len(history') - n + Cardinality({g \in Applied : g <= i})]
            /\ Undone(Self', n).state = state
            /\ Undone(Self', n).version = version + 2 * n]_vars

\* A two-entry setMany whose first entry was vetoed and whose second entry
\* was applied.
C21_Witness ==
    /\ call.name = "setMany"
    /\ outcome = "returned"
    /\ Len(call.updates) = 2
    /\ call.updates[1] = [key |-> "a", value |-> 2]
    /\ call.updates[2].key = "b"
    /\ \E j \in 1..Len(calls) : calls[j].key = "a" /\ calls[j].res = False
    /\ state = "b" :> call.updates[2].value
    /\ version = 1
    /\ Len(history) = 1

\* C22: within a committed set the steps come in the order
\* before-middleware, history push, commit and version increment, per-key
\* notification, wildcard notification, after-middleware, persistence
\* write: the before-middleware observe the instance as it was, every
\* callback and every after-middleware observes the committed value, the
\* incremented version and the pushed snapshot while the store still holds
\* what it held before the call, and the store is written last.
C22_SetOrder ==
    [][call'.name = "set" /\ call'.bumped /\ outcome' = "returned" =>
        LET k == call'.key
            v == state'[k]
            B == BeforeCalls(calls')
            A == AfterCalls(calls')
            D == delivered'
            old == localStorage[storageKey]
            Hit == {i \in 1..Len(listeners) :
                      listeners[i].event \in {EventName(storageKey, k),
                                              EventName(storageKey, Wildcard)}}
        IN  /\ Len(B) = Len(middlewares.before)
            /\ \A i \in 1..Len(B) :
                  /\ B[i].fn = middlewares.before[i]
                  /\ B[i].at = i
                  /\ B[i].seen = Seen(Self)
            /\ history' = Append(history, state)
            /\ state' = Put(state, k, v)
            /\ version' = version + 1
            /\ Len(D) = Cardinality(Hit)
            /\ \A i \in 1..Len(D) :
                  /\ D[i].at = Len(B) + i
                  /\ D[i].topic \in {k, Wildcard}
                  /\ D[i].seen.state = state'
                  /\ Get(D[i].seen.state, k) = v
                  /\ D[i].seen.version = version + 1
                  /\ D[i].seen.depth = Len(history) + 1
                  /\ D[i].seen.stored = old
            /\ \A i \in 1..Len(D), j \in 1..Len(D) :
                  D[i].topic = k /\ D[j].topic = Wildcard => D[i].at < D[j].at
            /\ \A i \in 1..Len(A) :
                  /\ A[i].at = Len(B) + Len(D) + i
                  /\ A[i].seen.state = state'
                  /\ A[i].seen.version = version + 1
                  /\ A[i].seen.stored = old
            /\ IF persist /\ hasStorage
               THEN /\ writes' = <<[key |-> storageKey, text |-> Stringify(state')]>>
                    /\ localStorage'[storageKey] = Item(Stringify(state'))
               ELSE writes' = <<>> /\ localStorage' = localStorage]_vars

\* A committed set on a persistent instance with a before-middleware, an
\* after-middleware, a wildcard subscriber registered before a per-key
\* subscriber, whose callbacks ran while the store held another table than
\* the one written at the end.
C22_Witness ==
    /\ call.name = "set" /\ call.bumped /\ outcome = "returned"
    /\ persist /\ hasStorage
    /\ Len(BeforeCalls(calls)) = 1
    /\ Len(AfterCalls(calls)) >= 1
    /\ Len(listeners) = 2
    /\ listeners[1].event[2] = Wildcard
    /\ Len(delivered) = 2
    /\ delivered[1].topic = call.key
    /\ delivered[2].topic = Wildcard
    /\ delivered[1].seen.stored # localStorage[storageKey]
    /\ delivered[2].seen.state = state
    /\ Len(writes) = 1

\* C23 as stated: on a committed set that returns, every registered
\* after-middleware is invoked exactly once, in registration order, with
\* the committed key and value, whatever the earlier ones returned.
C23_AfterReturnsIgnored ==
    [][call'.name = "set" /\ call'.bumped /\ outcome' = "returned" =>
        LET A == AfterCalls(calls')
        IN  /\ Len(A) = Len(middlewares.after)
            /\ \A i \in 1..Len(A) :
                  /\ A[i].fn = middlewares.after[i]
                  /\ A[i].key = call'.key
                  /\ A[i].value = state'[call'.key]]_vars

\* C23: on a committed set that returns, the after-middleware are invoked
\* in registration order, each at most once, up to and including the first
\* one that returns false; each is passed the committed key, and the
\* committed value unless an earlier after-middleware returned {value},
\* which then replaces the value the later ones are passed.  Neither return
\* changes the committed table, the notifications or the persistence write:
\* they are those of the same set on an instance without after-middleware.
C23_AfterReturnsBounded ==
    [][call'.name = "set" /\ call'.bumped /\ outcome' = "returned" =>
        LET A == AfterCalls(calls')
            M == middlewares.after
            k == call'.key
            r == set([Self EXCEPT !.middlewares.after = <<>>], k, call'.value)
        IN  /\ Len(A) <= Len(M)
            /\ \A i \in 1..Len(A) :
                  /\ A[i].fn = M[i]
                  /\ A[i].key = k
                  /\ A[i].value = Left(SubSeq(A, 1, i - 1), state'[k])
                  /\ i < Len(A) => A[i].res # False
            /\ Len(A) < Len(M) => Len(A) > 0 /\ A[Len(A)].res = False
            /\ state' = r.state
            /\ version' = r.version
            /\ history' = r.history
            /\ delivered' = r.delivered
            /\ writes' = r.writes
            /\ localStorage' = r.localStorage]_vars

\* A committed set on a persistent instance whose first after-middleware
\* returned false, so that the second one did not run, and whose table was
\* written to the store all the same.
C23_Witness ==
    /\ call.name = "set" /\ call.bumped /\ outcome = "returned"
    /\ persist /\ hasStorage
    /\ Len(middlewares.after) = 2
    /\ Len(AfterCalls(calls)) = 1
    /\ AfterCalls(calls)[1].res = False
    /\ Len(delivered) >= 1
    /\ writes = <<[key |-> storageKey, text |-> Stringify(state)]>>

\* C24: a set whose before-middleware throws passes the exception on to the
\* caller and commits nothing: table, version, history, future and store
\* stay as they were, no callback and no after-middleware runs and nothing
\* is written, while the before-middleware registered ahead of the
\* throwing one have run, each once and in order.
C24_BeforeThrow ==
    [][call'.name = "set" =>
        LET B == BeforeCalls(calls')
        IN  /\ outcome' = "threw:before" <=>
                  \E i \in 1..Len(B) : B[i].res = Throw
            /\ outcome' = "threw:before" =>
                  /\ UNCHANGED <<state, version, history, future, localStorage>>
                  /\ delivered' = <<>>
                  /\ writes' = <<>>
                  /\ AfterCalls(calls') = <<>>
                  /\ B[Len(B)].res = Throw
                  /\ \A i \in 1..Len(B) :
                        /\ B[i].fn = middlewares.before[i]
                        /\ B[i].value = Left(SubSeq(B, 1, i - 1), call'.value)
                        /\ i < Len(B) => B[i].res \in {Void} \cup {Override(v) : v \in AnyVals}]_vars

\* A set on a persistent instance with a subscriber whose first
\* before-middleware replaced the value and whose second one threw.
C24_Witness ==
    /\ call.name = "set"
    /\ outcome = "threw:before"
    /\ persist /\ hasStorage
    /\ Len(listeners) = 1
    /\ Len(calls) = 2
    /\ calls[1].res.kind = "value"
    /\ calls[2].res = Throw
    /\ delivered = <<>>
    /\ version = 0

\* C25: remove and clear invoke no middleware and leave both stacks alone;
\* remove of an absent key changes nothing (no version increment, no
\* notification, no store write), and clear always empties the table,
\* increments version, notifies the wildcard subscribers and persists, also
\* when the table was already empty.
C25_RemoveClear ==
    [][call'.name \in {"remove", "clear"} =>
        /\ calls' = <<>>
        /\ history' = history /\ future' = future
        /\ outcome' = "returned"
        /\ call'.name = "remove" /\ call'.key \notin DOMAIN state =>
              /\ UNCHANGED <<state, version, localStorage>>
              /\ delivered' = <<>>
              /\ writes' = <<>>
        /\ call'.name = "clear" =>
              LET Wild == {i \in 1..Len(listeners) :
                             listeners[i].event = EventName(storageKey, Wildcard)}
              IN  /\ state' = EmptyTable
                  /\ version' = version + 1
                  /\ Len(delivered') = Cardinality(Wild)
                  /\ \A i \in 1..Len(delivered') :
                        /\ delivered'[i].topic = Wildcard
                        /\ delivered'[i].delta = EmptyTable
                        /\ delivered'[i].seen.version = version + 1
                  /\ IF persist /\ hasStorage
                     THEN /\ writes' = <<[key |-> storageKey,
                                          text |-> Stringify(EmptyTable)]>>
                          /\ localStorage'[storageKey] = Item(Stringify(EmptyTable))
                     ELSE writes' = <<>> /\ localStorage' = localStorage]_vars

\* A clear of an already empty table on a persistent instance with a
\* wildcard subscriber: the version went up, the subscriber was notified
\* and the empty table was written.
C25_Witness ==
    /\ call.name = "clear"
    /\ ~call.changed
    /\ call.bumped
    /\ persist /\ hasStorage
    /\ Len(delivered) = 1
    /\ Len(writes) = 1
    /\ history = <<>>

\* C26: a set, remove, clear or hydrate leaves the future stack as it is,
\* also after an undo; an undo that acts pushes the live table onto future
\* and a redo replaces the live table by the top of future.  So a redo that
\* follows undo and then a committed set brings back the table captured at
\* that undo and moves the table holding the newer set onto history.
C26_FutureKept ==
    [][/\ call'.name \in {"set", "remove", "clear", "hydrate"} => future' = future
       /\ call'.name = "undo" /\ call'.bumped => future' = Append(future, state)
       /\ call'.name = "redo" /\ future # <<>> =>
             /\ state' = Top(future)
             /\ future' = Pop(future)
             /\ history' = Append(history, state)
       /\ prior.name = "undo" /\ prior.bumped /\ call.name = "set" /\ call.bumped =>
             /\ future # <<>>
             /\ history # <<>> /\ Put(Top(history), call.key, state[call.key]) = state
             /\ call'.name = "redo" =>
                   /\ call'.bumped
                   /\ state' = Top(future)
                   /\ Top(history') = state]_vars

\* A redo right after a committed set of "b" that brought back a table
\* without "b": the newer set is gone from the live table and sits on top
\* of history.
C26_Witness ==
    /\ call.name = "redo" /\ call.bumped
    /\ prior.name = "set" /\ prior.bumped /\ prior.key = "b"
    /\ "b" \notin DOMAIN state
    /\ "a" \in DOMAIN state
    /\ history # <<>> /\ Get(Top(history), "b") = 1

\* C27: persistence is never switched off by any operation, and
\* enablePersistence on an instance that is already persistent does
\* nothing: slot key (whatever key is passed), table, version, stacks and
\* store stay as they were, nothing is written and nobody is notified.
C27_OneWay ==
    [][/\ persist => persist'
       /\ call'.name = "enablePersistence" /\ persist =>
             /\ UNCHANGED <<storageKey, state, version, history, future,
                            localStorage, listeners, middlewares>>
             /\ writes' = <<>>
             /\ delivered' = <<>>
             /\ calls' = <<>>]_vars

\* enablePersistence("app") returned on an instance that was persistent
\* under "global-state" with a table: the key is still "global-state" and
\* the slot "app" is still empty.
C27_Witness ==
    /\ call.name = "enablePersistence"
    /\ call.key = "app"
    /\ persist /\ hasStorage
    /\ storageKey = "global-state"
    /\ localStorage["app"] = NoItem
    /\ localStorage["global-state"] = Item(Stringify(state))
    /\ state # EmptyTable
    /\ version >= 1

\* C28: enablePersistence on a non-persistent instance with the store
\* available adopts the given key, replaces the live table by the table
\* stored under that key when there is one (keeping nothing of the
\* in-memory table) and keeps the in-memory table otherwise, and leaves the
\* slot holding the serialization of the resulting table; it notifies
\* nobody and pushes nothing onto history.
C28_EnableLoads ==
    [][call'.name = "enablePersistence" /\ ~persist /\ hasStorage =>
        LET key == IF call'.key # NoKey THEN call'.key ELSE storageKey
            slot == localStorage[key]
        IN  /\ persist'
            /\ storageKey' = key
            /\ state' = IF slot.has THEN Parse(slot.text) ELSE state
            /\ localStorage' =
                  [localStorage EXCEPT ![key] = Item(Stringify(state'))]
            /\ writes' = <<[key |-> key, text |-> Stringify(state')]>>
            /\ delivered' = <<>>
            /\ calls' = <<>>
            /\ UNCHANGED <<history, future, listeners>>]_vars

\* enablePersistence("app") returned on an instance with a subscriber
\* whose one committed set had put "a" in the table: the live table is the
\* stored one, without "a", and nobody was notified.
C28_Witness ==
    /\ call.name = "enablePersistence"
    /\ call.key = "app"
    /\ call.changed
    /\ persist /\ hasStorage
    /\ storageKey = "app"
    /\ state = "b" :> 2
    /\ history = <<EmptyTable>>
    /\ version = 1
    /\ localStorage["app"] = Item(Stringify(state))
    /\ Len(listeners) >= 1
    /\ delivered = <<>>

\* C29: once enablePersistence has changed the slot key, a mutation
\* notifies no callback registered under the old key and does notify the
\* callbacks registered under the new one; registrations are made under
\* the key in force at the time and keep it; and a disposer obtained under
\* the old key still takes out its own registration and no other.
C29_Orphans ==
    [][/\ call'.name \in Mutations =>
             /\ storageKey' = storageKey
             /\ \A i \in 1..Len(listeners) :
                   listeners[i].event[1] # storageKey =>
                      \A j \in 1..Len(delivered') :
                         delivered'[j].id # listeners[i].id
       /\ call'.name = "set" /\ call'.bumped =>
             \A i \in 1..Len(listeners) :
                listeners[i].event \in {EventName(storageKey, call'.key),
                                        EventName(storageKey, Wildcard)}
                   => \E j \in 1..Len(delivered') :
                         delivered'[j].id = listeners[i].id
       /\ call'.name \in {"clear", "undo"} /\ call'.bumped =>
             \A i \in 1..Len(listeners) :
                listeners[i].event = EventName(storageKey, Wildcard)
                   => \E j \in 1..Len(delivered') :
                         delivered'[j].id = listeners[i].id
       /\ call'.name \in {"subscribe", "subscribeAll"} =>
             /\ Len(listeners') = Len(listeners) + 1
             /\ SubSeq(listeners', 1, Len(listeners)) = listeners
             /\ listeners'[Len(listeners')].event[1] = storageKey
       /\ storageKey' # storageKey =>
             /\ call'.name = "enablePersistence"
             /\ listeners' = listeners
       /\ call'.name = "unsubscribe" =>
             listeners' = SelectSeq(listeners, LAMBDA l : l.id # call'.value)]_vars

\* A committed set after the key changed to "app", with one wildcard
\* subscriber from before the change and one from after it: only the
\* second was notified.
C29_Witness ==
    /\ call.name = "set" /\ call.bumped
    /\ storageKey = "app"
    /\ Len(listeners) = 2
    /\ listeners[1].event = EventName("global-state", Wildcard)
    /\ listeners[2].event = EventName("app", Wildcard)
    /\ Len(delivered) = 1
    /\ delivered[1].id = listeners[2].id

\* C30: a merge-mode hydrate invokes no middleware and notifies no per-key
\* subscriber; when emit is set and the merge changed the table it notifies
\* every wildcard subscriber once, with the merged table, and otherwise it
\* notifies nobody; a merge that changed the table increments version and
\* persists whether or not emit is set, and one that changed nothing does
\* neither.
C30_MergeQuiet ==
    [][call'.name = "hydrate" /\ call'.opts.mode = "merge" =>
        LET Wild == {i \in 1..Len(listeners) :
                       listeners[i].event = EventName(storageKey, Wildcard)}
        IN  /\ calls' = <<>>
            /\ \A j \in 1..Len(delivered') :
                  /\ delivered'[j].topic = Wildcard
                  /\ delivered'[j].delta = state'
            /\ IF call'.opts.emit /\ state' # state
               THEN /\ Len(delivered') = Cardinality(Wild)
                    /\ \A i \in Wild :
                          Cardinality({j \in 1..Len(delivered') :
                                         delivered'[j].id = listeners[i].id}) = 1
               ELSE delivered' = <<>>
            /\ IF state' # state
               THEN /\ version' = version + 1
                    /\ persist /\ hasStorage =>
                          /\ localStorage'[storageKey] = Item(Stringify(state'))
                          /\ Len(writes') = 1
               ELSE /\ version' = version
                    /\ writes' = <<>>
                    /\ localStorage' = localStorage]_vars

\* A merge-mode hydrate with emit set that put "a" to 1 on an instance with
\* a subscriber of "a", a wildcard subscriber and a middleware in each
\* phase that throws when it is handed {a, 1}: the wildcard subscriber
\* alone was notified, once, and no middleware ran.
C30_Witness ==
    /\ call.name = "hydrate"
    /\ call.opts.mode = "merge" /\ call.opts.emit
    /\ call.changed /\ call.bumped
    /\ outcome = "returned"
    /\ state["a"] = 1
    /\ middlewares.before = <<"check">> /\ middlewares.after = <<"check">>
    /\ Len(listeners) = 2
    /\ \E i \in 1..2 : listeners[i].event = EventName(storageKey, "a")
    /\ \E i \in 1..2 : listeners[i].event = EventName(storageKey, Wildcard)
    /\ Len(delivered) = 1
    /\ delivered[1].topic = Wildcard
    /\ calls = <<>>

\* The entries of table t that table s lacks or holds with another value.
Delta(s, t) ==
    LET D == {k \in DOMAIN t : k \notin DOMAIN s \/ s[k] # t[k]}
    IN  [k \in D |-> t[k]]

\* What C31 says a wildcard subscriber is handed by a call.
Payload(c, s, t) ==
    IF c.name = "set" THEN Single(c.key, t[c.key])
    ELSE IF c.name \in {"clear", "undo", "redo"} THEN t
    ELSE IF c.name = "hydrate" /\ c.opts.mode = "replace" THEN t
    ELSE Delta(s, t)

\* C31: what a wildcard subscriber is handed is the changed keys alone
\* ({k: v} for a set of k), except after clear, undo, redo and a
\* replace-mode hydrate, which hand over the whole resulting table; a
\* merge-mode hydrate hands over only the keys it changed.
C31_DeltaOnly ==
    [][\A j \in 1..Len(delivered') :
          delivered'[j].topic = Wildcard =>
             delivered'[j].delta = Payload(call', state, state')]_vars

\* C32: a hydrate with recordHistory pushes one snapshot of the table as it
\* was onto history, also when it then changes nothing, so that an undo
\* right after it restores that table; a hydrate without recordHistory
\* leaves history as it is, so that an undo right after it restores the
\* snapshot that was on top before, without the hydrated values.
C32_RecordHistory ==
    [][/\ call'.name = "hydrate" =>
             /\ history' = IF call'.opts.recordHistory
                           THEN Append(history, state) ELSE history
             /\ call'.opts.recordHistory => undo(Self').state = state
             /\ ~call'.opts.recordHistory /\ history # <<>> =>
                   undo(Self').state = Top(history)
       /\ call.name = "hydrate" /\ call'.name = "undo" /\ history # <<>> =>
             /\ call'.bumped
             /\ state' = Top(history)
             /\ history' = Pop(history)
       /\ call.name = "hydrate" /\ call.opts.recordHistory => history # <<>>]_vars

\* An undo right after a hydrate with recordHistory that was the first
\* mutation of the instance: the table is empty again and the hydrated
\* table sits on future.
C32_Witness ==
    /\ call.name = "undo" /\ call.bumped
    /\ prior.name = "hydrate" /\ prior.bumped
    /\ version = 2
    /\ state = EmptyTable
    /\ history = <<>>
    /\ future = <<"b" :> 1>>

\* The number of snapshots on the two stacks together.
Stacked(h, f) == Len(h) + Len(f)

\* C39: the two stacks together hold as many snapshots as there were
\* committed sets and hydrates with recordHistory: they start empty, each
\* committed set and each recording hydrate adds one snapshot to history,
\* an undo or redo that acts moves the top of one stack's count to the
\* other, and no call takes a snapshot away from the two stacks.
C39_StackCount ==
    /\ Stacked(history, future) = 0
    /\ [][/\ Stacked(history', future') =
                Stacked(history, future)
                  + (IF call'.name = "set" /\ call'.bumped THEN 1 ELSE 0)
                  + (IF call'.name = "hydrate" /\ call'.opts.recordHistory
                     THEN 1 ELSE 0)
          /\ call'.name = "set" /\ call'.bumped =>
                Len(history') = Len(history) + 1 /\ future' = future
          /\ call'.name = "undo" /\ call'.bumped =>
                /\ Len(history') = Len(history) - 1
                /\ Len(future') = Len(future) + 1
          /\ call'.name = "redo" /\ call'.bumped =>
                /\ Len(history') = Len(history) + 1
                /\ Len(future') = Len(future) - 1
          /\ call'.name \in {"undo", "redo"} /\ ~call'.bumped =>
                history' = history /\ future' = future]_vars

\* After a redo that acted, on an instance whose three snapshots come from
\* two committed sets and a recording hydrate or from three sets.
C39_Witness ==
    /\ call.name = "redo" /\ call.bumped
    /\ Len(history) >= 2
    /\ Len(future) >= 1
    /\ Stacked(history, future) = 3

\* C38: undo, redo, clear and hydrate deliver nothing on a per-key topic,
\* also when they change the value or the presence of a key that has
\* subscribers: whatever they deliver goes to the wildcard subscribers, so
\* that the value a subscribe(k, ...) callback received last can differ
\* from get(k) afterwards.
C38_NoPerKey ==
    [][call'.name \in {"undo", "redo", "clear", "hydrate"} =>
        /\ \A j \in 1..Len(delivered') : delivered'[j].topic = Wildcard
        /\ \A i \in 1..Len(listeners) :
              listeners[i].event[2] # Wildcard =>
                 \A j \in 1..Len(delivered') :
                    delivered'[j].id # listeners[i].id
        /\ call'.bumped =>
              \A i \in 1..Len(listeners) :
                 listeners[i].event = EventName(storageKey, Wildcard) =>
                    \E j \in 1..Len(delivered') :
                       delivered'[j].id = listeners[i].id]_vars

\* subscribe("a", cb); set("a", v); undo(): cb received v from the set and
\* nothing from the undo, and "a" is no longer in the table.
C38_Witness ==
    /\ call.name = "undo" /\ call.bumped /\ call.changed
    /\ prior.name = "set" /\ prior.key = "a" /\ prior.bumped
    /\ version = 2
    /\ Len(listeners) = 1
    /\ listeners[1].event = EventName(storageKey, "a")
    /\ delivered = <<>>
    /\ "a" \notin DOMAIN state

\* C36: a set whose after-middleware throws passes the exception on with
\* the commit in effect: the table holds the value, version went up, the
\* snapshot is on history and the subscribers were notified, while the
\* after-middleware behind the throwing one did not run and nothing was
\* written, so the store holds what it held before; the next mutation that
\* returns on a persistent instance writes the live table again.
C36_AfterThrow ==
    [][/\ call'.name = "set" =>
             LET A == AfterCalls(calls')
                 k == call'.key
                 Hit == {i \in 1..Len(listeners) :
                           listeners[i].event \in {EventName(storageKey, k),
                                                   EventName(storageKey, Wildcard)}}
             IN  /\ outcome' = "threw:after" <=>
                       \E i \in 1..Len(A) : A[i].res = Throw
                 /\ outcome' = "threw:after" =>
                       /\ k \in DOMAIN state'
                       /\ state' = Put(state, k, state'[k])
                       /\ version' = version + 1
                       /\ history' = Append(history, state)
                       /\ Len(delivered') = Cardinality(Hit)
                       /\ \A j \in 1..Len(delivered') :
                             delivered'[j].seen.state = state'
                       /\ A[Len(A)].res = Throw
                       /\ \A i \in 1..Len(A) :
                             /\ A[i].fn = middlewares.after[i]
                             /\ i < Len(A) => A[i].res # Throw
                       /\ writes' = <<>>
                       /\ localStorage' = localStorage
       /\ (/\ outcome = "threw:after"
           /\ persist /\ hasStorage
           /\ call'.name = "set" /\ call'.bumped /\ outcome' = "returned") =>
             localStorage'[storageKey] = Item(Stringify(state'))]_vars

\* The second set on a persistent instance with a subscriber, whose first
\* after-middleware threw: the second one did not run, the table is
\* changed and the store still holds the table the first set wrote.
C36_Witness ==
    /\ call.name = "set" /\ call.changed
    /\ outcome = "threw:after"
    /\ persist /\ hasStorage
    /\ version = 2
    /\ Len(history) = 2
    /\ Len(middlewares.after) = 2
    /\ Len(AfterCalls(calls)) = 1
    /\ Len(delivered) >= 1
    /\ writes = <<>>
    /\ localStorage[storageKey] = Item(Stringify(history[2]))
    /\ localStorage[storageKey] # Item(Stringify(state))

\* C35: no caller has the registry hold an instance before the first call
\* of initGlobalState, getGlobalState or enableGlobalPersistence, so that
\* a first initGlobalState(options) without force constructs the singleton
\* from options: it is persistent as options say and its slot key, the
\* prefix of its event names, is options.storageKey.
C35_AbsentUntilFirst ==
    [][(/\ call.name = "new"
        /\ call'.name = "initGlobalState"
        /\ ~registry'.force) =>
          /\ registry.inst = Null
          /\ persist' = registry'.persist
          /\ storageKey' = IF call'.key = NoKey THEN DefaultKey ELSE call'.key]_vars


\* The table values of the instance are the contents of its objects.
Agrees(m) ==
    /\ state = m.heap[m.live]
    /\ history = [i \in DOMAIN m.hist |-> m.heap[m.hist[i]]]
    /\ future = [i \in DOMAIN m.fut |-> m.heap[m.fut[i]]]

\* C33: no entry of the history or future stack is the object this.state
\* refers to, and no call changes the contents of an object that is on a
\* stack before and after it: set, remove, clear, hydrate, undo and redo
\* write only to the live table or replace it.
C33_Independent ==
    /\ [](/\ mem.on
          /\ mem.live \notin Stack(mem)
          /\ Agrees(mem))
    /\ [][\A x \in Stack(mem) \cap Stack(mem') : mem'.heap[x] = mem.heap[x]]_vars

\* A set wrote to the table that an undo had just popped off the history
\* stack, with snapshots on both stacks.
C33_Witness ==
    /\ call.name = "set" /\ call.bumped
    /\ prior.name = "undo" /\ prior.bumped
    /\ Len(mem.hist) >= 1 /\ Len(mem.fut) = 1
    /\ mem.heap[mem.live] # mem.heap[Top(mem.hist)]
    /\ mem.heap[Top(mem.fut)] # mem.heap[Top(mem.hist)]

\* The functions of chain L that called removeMiddleware on an entry of the
\* chain at or before their own position.
Leaves(L) ==
    {i \in DOMAIN L :
        \/ L[i] = "leave"
        \/ L[i] = "evict" /\ \E j \in 1..(i - 1) : L[j] = "flip"}

\* During a set, a function at position i of the chain of a phase removed
\* itself or an earlier entry, and no other function of the chain removes
\* anything: the function registered at position i + 1 was not invoked, the
\* one at i + 2 was invoked next, and the function at i + 1 is registered
\* afterwards, now at position i.
Skipped(type) ==
    LET L == middlewares[type]
        log == SelectSeq(calls', LAMBDA c : c.type = type)
    IN  \A i \in 1..(Len(L) - 1) :
            (/\ Leaves(L) = {i}
             /\ \A j \in DOMAIN L : L[j] \in Leavers => j = i) =>
                /\ Len(log) = Len(L) - 1
                /\ \A n \in 1..i : log[n].fn = L[n]
                /\ \A n \in (i + 1)..Len(log) : log[n].fn = L[n + 1]
                /\ Len(middlewares'[type]) = Len(L) - 1
                /\ middlewares'[type][i] = L[i + 1]

\* A chain without a function that removes anything invokes every function
\* registered, in order.
RunsAll(type) ==
    LET L == middlewares[type]
        log == SelectSeq(calls', LAMBDA c : c.type = type)
    IN  (\A j \in DOMAIN L : L[j] \notin Leavers) =>
            /\ Len(log) = Len(L)
            /\ \A n \in DOMAIN L : log[n].fn = L[n]

\* C40: a middleware that calls removeMiddleware on itself or on an earlier
\* entry of its phase while the chain runs makes the chain pass over the
\* function registered right after it, which stays registered and is invoked
\* by later sets.
C40_SkipsNext ==
    [][call'.name = "set" =>
          \A type \in {"before", "after"} : Skipped(type) /\ RunsAll(type)]_vars

\* A set(a, 2) ran a before-chain of "leave", "flip", "bump": "leave" and
\* "bump" were invoked, "flip" was not, so that 2 was stored, and "flip" is
\* registered first afterwards.
C40_Witness ==
    /\ call.name = "set" /\ call.value = 2
    /\ middlewares.before = <<"flip", "bump">>
    /\ Len(BeforeCalls(calls)) = 2
    /\ BeforeCalls(calls)[1].fn = "leave"
    /\ BeforeCalls(calls)[2].fn = "bump"
    /\ state["a"] = 2


\* The listeners of the instance registered under a topic, in order.
On(topic) == SelectSeq(listeners, LAMBDA l : l.event = EventName(storageKey, topic))

\* What a notification tells its callback, and which callback.
Told(n) == [id |-> n.id, topic |-> n.topic, value |-> n.value, delta |-> n.delta]

\* The notifications of one set(a, v) that no callback answers with a set:
\* the per-key listeners, then the wildcard listeners.
Round(v) ==
    [i \in 1..Len(On("a")) |->
        [id |-> On("a")[i].id, topic |-> "a", value |-> v, delta |-> EmptyTable]]
    \o [i \in 1..Len(On(Wildcard)) |->
        [id |-> On(Wildcard)[i].id, topic |-> Wildcard, value |-> Undefined,
         delta |-> Single("a", v)]]

\* The notifications of set(a, 1) from the i-th per-key listener on: each
\* listener is told 1, a resetting one is followed at once by the whole
\* round of its set(a, 2), and the wildcard listeners are told {a: 1} last.
RECURSIVE Rounds(_)
Rounds(i) ==
    IF i > Len(On("a"))
    THEN SubSeq(Round(1), Len(On("a")) + 1, Len(Round(1)))
    ELSE <<Round(1)[i]>>
         \o (IF On("a")[i].resets THEN Round(2) ELSE <<>>)
         \o Rounds(i + 1)

\* The position of the first resetting per-key listener of a.
FirstResetting ==
    CHOOSE i \in 1..Len(On("a")) :
        On("a")[i].resets /\ \A j \in 1..(i - 1) : ~On("a")[j].resets

\* C37: when a per-key subscriber of a answers the notification of
\* set(a, 1) with set(a, 2), the nested set runs whole (every per-key and
\* wildcard subscriber is told 2) before the outer set goes on; the outer
\* set then tells the remaining per-key subscribers 1 and the wildcard
\* subscribers {a: 1} while the table already holds 2, and it returns with
\* the table holding 2.
C37_NestedFirst ==
    [][(/\ call'.name = "set" /\ call'.value = 1
        /\ outcome' = "returned"
        /\ \E i \in 1..Len(On("a")) : On("a")[i].resets) =>
          /\ [n \in DOMAIN delivered' |-> Told(delivered'[n])] = Rounds(1)
          /\ \A n \in DOMAIN delivered' :
                n > FirstResetting + Len(Round(2)) =>
                    delivered'[n].seen.state["a"] = 2
          /\ state'["a"] = 2
          /\ listeners' = listeners]_vars

\* set(a, 1) with a resetting subscriber, a plain per-key subscriber and a
\* wildcard subscriber, in that order: the plain subscriber was last told 1,
\* the wildcard subscriber was last told {a: 1}, both while the table held
\* 2, and the table holds 2.
C37_Witness ==
    /\ call.name = "set" /\ call.value = 1 /\ outcome = "returned"
    /\ Len(On("a")) = 2 /\ On("a")[1].resets /\ ~On("a")[2].resets
    /\ Len(On(Wildcard)) = 1
    /\ Len(delivered) = 6
    /\ delivered[5].id = On("a")[2].id /\ delivered[5].value = 1
    /\ delivered[5].seen.state["a"] = 2
    /\ delivered[6].delta = Single("a", 1)
    /\ delivered[6].seen.state["a"] = 2
    /\ state["a"] = 2

\* C34: no call of set ends with the RangeError of an exhausted call stack,
\* whatever the middleware and the callbacks registered do.
C34_Guarded ==
    [][call'.name = "set" =>
          \A n \in DOMAIN calls' : calls'[n].res # Overflow]_vars
====
